---- MODULE Spec2Model ----
(***************************************************************************)
(* Model of the eav-to-prisma schema generator: Generator.generate() and   *)
(* the pure builders it calls (buildModel, buildComponentTable,            *)
(* buildComponentTranslationTable, buildJunctionTable, mapFieldToPrisma,   *)
(* the naming helpers).                                                    *)
(*                                                                         *)
(* Strings that the code takes apart or puts together (slugs, field keys,  *)
(* table names, column names, column types) are sequences of one-character *)
(* strings, so that toPascalCase / toSnakeCase / template strings are      *)
(* computed character by character as in the source.  Strings the code     *)
(* only passes around (attributes, enum values, file paths) stay TLA+      *)
(* strings.                                                                *)
(***************************************************************************)
EXTENDS Integers, Sequences, FiniteSets, TLC

(***************************************************************************)
(* Bounds                                                                  *)
(***************************************************************************)
MaxModels == 2

(***************************************************************************)
(* Characters and the naming helpers (src/utils/naming.ts)                 *)
(***************************************************************************)
LowerChars ==
  <<"a","b","c","d","e","f","g","h","i","j","k","l","m",
    "n","o","p","q","r","s","t","u","v","w","x","y","z">>

UpperChars ==
  <<"A","B","C","D","E","F","G","H","I","J","K","L","M",
    "N","O","P","Q","R","S","T","U","V","W","X","Y","Z">>

IsUpper(c) == \E i \in 1..Len(UpperChars) : UpperChars[i] = c

IsLower(c) == \E i \in 1..Len(LowerChars) : LowerChars[i] = c

toUpperCase(c) ==
  IF IsLower(c)
    THEN UpperChars[CHOOSE i \in 1..Len(LowerChars) : LowerChars[i] = c]
    ELSE c

toLowerCase(c) ==
  IF IsUpper(c)
    THEN LowerChars[CHOOSE i \in 1..Len(UpperChars) : UpperChars[i] = c]
    ELSE c

RECURSIVE ReplaceUpper(_)
\* str.replace(/[A-Z]/g, letter => `_${letter.toLowerCase()}`)
ReplaceUpper(str) ==
  IF str = <<>> THEN <<>>
  ELSE (IF IsUpper(Head(str)) THEN <<"_", toLowerCase(Head(str))>>
                              ELSE <<Head(str)>>) \o ReplaceUpper(Tail(str))

\* ... .replace(/^_/, '')
toSnakeCase(str) ==
  LET r == ReplaceUpper(str)
  IN IF r # <<>> /\ Head(r) = "_" THEN Tail(r) ELSE r

RECURSIVE PascalWords(_, _)
\* split(/[-_]/).map(word => first.toUpperCase() + rest.toLowerCase()).join('')
\* atStart is TRUE at the first character of a word.
PascalWords(str, atStart) ==
  IF str = <<>> THEN <<>>
  ELSE IF Head(str) \in {"-", "_"} THEN PascalWords(Tail(str), TRUE)
  ELSE <<IF atStart THEN toUpperCase(Head(str)) ELSE toLowerCase(Head(str))>>
         \o PascalWords(Tail(str), FALSE)

toPascalCase(str) == PascalWords(str, TRUE)

toCamelCase(str) ==
  LET pascal == toPascalCase(str)
  IN IF pascal = <<>> THEN <<>>
     ELSE <<toLowerCase(Head(pascal))>> \o Tail(pascal)

RECURSIVE ReplaceHyphens(_)
\* slug.replace(/-/g, "_")
ReplaceHyphens(str) ==
  IF str = <<>> THEN <<>>
  ELSE <<IF Head(str) = "-" THEN "_" ELSE Head(str)>> \o ReplaceHyphens(Tail(str))

endsWith(str, c) == str # <<>> /\ str[Len(str)] = c

(***************************************************************************)
(* String literals of the source that take part in name building           *)
(***************************************************************************)
S_id          == <<"i","d">>
S_suffix_id   == <<"_","i","d">>
S_order       == <<"o","r","d","e","r">>
S_lang        == <<"l","a","n","g">>
S_created_at  == <<"c","r","e","a","t","e","d","_","a","t">>
S_updated_at  == <<"u","p","d","a","t","e","d","_","a","t">>
S_variant_id  == <<"v","a","r","i","a","n","t","_","i","d">>
S_enabled     == <<"e","n","a","b","l","e","d">>
S_translations == <<"t","r","a","n","s","l","a","t","i","o","n","s">>
S_Translation == <<"T","r","a","n","s","l","a","t","i","o","n">>
S_translation_suffix == <<"_","t","r","a","n","s","l","a","t","i","o","n">>
S_status      == <<"s","t","a","t","u","s">>
S_published_at == <<"p","u","b","l","i","s","h","e","d","_","a","t">>
S_Media       == <<"M","e","d","i","a">>

T_String   == <<"S","t","r","i","n","g">>
T_Int      == <<"I","n","t">>
T_Float    == <<"F","l","o","a","t">>
T_Boolean  == <<"B","o","o","l","e","a","n">>
T_DateTime == <<"D","a","t","e","T","i","m","e">>

Undefined == "undefined"

(***************************************************************************)
(* Field definitions: records with key, type, required and, optionally,    *)
(* translatable, derived, config, validation.                              *)
(***************************************************************************)
HasConfig(field, t) == "config" \in DOMAIN field /\ field.config.type = t

Validation(field) ==
  IF "validation" \in DOMAIN field THEN field.validation ELSE Undefined

IsDerived(field) == "derived" \in DOMAIN field /\ field.derived = TRUE

\* field.translatable !== false
TranslatableFlag(field) ==
  ~("translatable" \in DOMAIN field /\ field.translatable = FALSE)

FieldTypes ==
  {"text", "rich", "number", "boolean", "date", "select", "json",
   "media", "relation", "component"}

RelationTypes == {"oneToOne", "manyToOne", "oneToMany", "manyToMany"}

(***************************************************************************)
(* src/mappers/field-mapper.ts                                             *)
(***************************************************************************)
toModelName(slug, config) ==
  CASE config.convention = "PascalCase" -> toPascalCase(slug)
    [] config.convention = "camelCase"  -> toCamelCase(slug)
    [] config.convention = "snake_case" -> ReplaceHyphens(slug)
    [] OTHER -> toPascalCase(slug)

mapTextField(field) ==
  [name |-> field.key, type |-> T_String, optional |-> ~field.required,
   validation |-> Validation(field)]

mapRichTextField(field) ==
  [name |-> field.key, type |-> T_String, optional |-> ~field.required,
   validation |-> Validation(field)]

mapDateField(field) ==
  [name |-> field.key, type |-> T_DateTime, optional |-> ~field.required,
   validation |-> Validation(field)]

mapSelectField(field) ==
  [name |-> field.key, type |-> T_String, optional |-> ~field.required,
   validation |-> Validation(field)]

mapJsonField(field) ==
  [name |-> field.key, type |-> T_String, optional |-> ~field.required,
   validation |-> Validation(field)]

mapNumberField(field) ==
  [name |-> field.key,
   type |-> IF HasConfig(field, "number") /\ field.config.format = "integer"
              THEN T_Int ELSE T_Float,
   optional |-> ~field.required,
   default |-> IF HasConfig(field, "number") THEN field.config.default
                                            ELSE Undefined,
   validation |-> Validation(field)]

mapBooleanField(field) ==
  [name |-> field.key, type |-> T_Boolean, optional |-> ~field.required,
   default |-> IF HasConfig(field, "boolean") THEN field.config.default
                                             ELSE Undefined,
   validation |-> Validation(field)]

\* Mutation: a media field yields its foreign key and a relation column.
mapMediaField_keyAndRelation(field, config) ==
  <<[name |-> field.key \o S_suffix_id, type |-> T_String,
     optional |-> ~field.required],
    [name |-> field.key, type |-> S_Media, optional |-> TRUE]>>

mapMediaField(field, config) ==
  LET hasMediaModel == S_Media \in config.externalModelNames
  IN IF HasConfig(field, "media") /\ field.config.multiple /\ hasMediaModel
       THEN <<[name |-> field.key, type |-> S_Media, list |-> TRUE,
               optional |-> TRUE]>>
       ELSE <<[name |-> field.key \o S_suffix_id, type |-> T_String,
               optional |-> ~field.required]>>

mapRelationField(field, config) ==
  LET relationConfig == field.config
      targetModel == toModelName(relationConfig.targetModel, config)
  IN CASE relationConfig.relationType = "oneToOne" ->
            <<[name |-> field.key \o S_suffix_id, type |-> T_String,
               optional |-> ~field.required, attributes |-> <<"@unique">>]>>
       [] relationConfig.relationType = "manyToOne" ->
            <<[name |-> field.key \o S_suffix_id, type |-> T_String,
               optional |-> ~field.required]>>
       [] relationConfig.relationType \in {"oneToMany", "manyToMany"} ->
            <<[name |-> field.key, type |-> targetModel, list |-> TRUE,
               optional |-> TRUE]>>

mapComponentField(field, config) ==
  LET componentModel == toModelName(field.config.slug, config)
  IN IF field.config.repeatable
       THEN <<[name |-> field.key, type |-> componentModel, list |-> TRUE,
               optional |-> TRUE]>>
       ELSE <<[name |-> field.key, type |-> componentModel,
               optional |-> ~field.required]>>

\* The inputs on which mapFieldToPrisma throws instead of returning.
mapFieldThrows(field) ==
  \/ field.type \notin FieldTypes
  \/ field.type = "relation" /\ ~HasConfig(field, "relation")
  \/ field.type = "relation" /\ field.config.relationType \notin RelationTypes
  \/ field.type = "component" /\ ~HasConfig(field, "component")

\* Mutation: what is thrown is reported as a failure to read.
mapFieldError_asReadFailure(field) ==
  [name |-> "Error", message |-> "Failed to read models from database"]

\* What mapFieldToPrisma throws on those inputs.
mapFieldError(field) ==
  CASE field.type \notin FieldTypes ->
         [name |-> "Error", message |-> "Unknown field type", type |-> field.type]
    [] field.type = "relation" /\ ~HasConfig(field, "relation") ->
         [name |-> "Error", message |-> "Invalid relation field"]
    [] field.type = "relation" /\ HasConfig(field, "relation") ->
         [name |-> "Error", message |-> "Unknown relation type",
          type |-> field.config.relationType]
    [] field.type = "component" ->
         [name |-> "Error", message |-> "Invalid component field"]

mapFieldToPrisma(field, config) ==
  CASE field.type = "text"      -> <<mapTextField(field)>>
    [] field.type = "rich"      -> <<mapRichTextField(field)>>
    [] field.type = "number"    -> <<mapNumberField(field)>>
    [] field.type = "boolean"   -> <<mapBooleanField(field)>>
    [] field.type = "date"      -> <<mapDateField(field)>>
    [] field.type = "select"    -> <<mapSelectField(field)>>
    [] field.type = "json"      -> <<mapJsonField(field)>>
    [] field.type = "media"     -> mapMediaField(field, config)
    [] field.type = "relation"  -> mapRelationField(field, config)
    [] field.type = "component" -> mapComponentField(field, config)

RECURSIVE FlatMapFields(_, _)
\* fields.flatMap((f) => mapFieldToPrisma(f, config))
FlatMapFields(fields, config) ==
  IF fields = <<>> THEN <<>>
  ELSE mapFieldToPrisma(Head(fields), config) \o FlatMapFields(Tail(fields), config)

AnyFieldThrows(fields) == \E i \in 1..Len(fields) : mapFieldThrows(fields[i])

\* The error a builder is rejected with: the one mapFieldToPrisma throws for
\* the first field of the list it throws on.
firstFieldError(fields) ==
  mapFieldError(fields[CHOOSE i \in 1..Len(fields) :
                         /\ mapFieldThrows(fields[i])
                         /\ \A j \in 1..(i - 1) : ~mapFieldThrows(fields[j])])

(***************************************************************************)
(* src/mappers/relation-mapper.ts                                          *)
(***************************************************************************)
\* Mutation: every relation field is taken to need a junction table.
needsJunctionTable_anyRelation(field) ==
  /\ field.type = "relation"
  /\ HasConfig(field, "relation")

needsJunctionTable(field) ==
  /\ field.type = "relation"
  /\ HasConfig(field, "relation")
  /\ field.config.relationType = "manyToMany"

buildJunctionTableName(fromModel, toModel, config) ==
  IF config.convention = "snake_case"
    THEN toSnakeCase(fromModel) \o <<"_">> \o toSnakeCase(toModel)
    ELSE fromModel \o toModel

\* Mutation: setNull is passed through instead of becoming Restrict.
junctionOnDelete_setNull(relationConfig) ==
  IF "cascade" \in DOMAIN relationConfig /\ relationConfig.cascade = "cascade"
    THEN "Cascade"
  ELSE IF "cascade" \in DOMAIN relationConfig /\ relationConfig.cascade = "setNull"
    THEN "SetNull"
  ELSE "Restrict"

\* onDelete: relationConfig.cascade === 'cascade' ? 'Cascade' : 'Restrict'
junctionOnDelete(relationConfig) ==
  IF "cascade" \in DOMAIN relationConfig /\ relationConfig.cascade = "cascade"
    THEN "Cascade" ELSE "Restrict"

buildJunctionTable(fromModel, field, config) ==
  LET relationConfig == field.config
      toModel == toPascalCase(relationConfig.targetModel)
      tableName == buildJunctionTableName(fromModel, toModel, config)
      fromFk == toSnakeCase(fromModel) \o S_suffix_id
      toFk == toSnakeCase(toModel) \o S_suffix_id
  IN [name |-> tableName,
      fields |-> <<
        [name |-> S_id, type |-> T_String,
         attributes |-> <<"@id", "@default(cuid())">>],
        [name |-> fromFk, type |-> T_String],
        [name |-> toFk, type |-> T_String],
        [name |-> S_order, type |-> T_Int, optional |-> TRUE],
        [name |-> S_created_at, type |-> T_DateTime,
         attributes |-> <<"@default(now())">>],
        [name |-> toSnakeCase(fromModel), type |-> fromModel,
         relation |-> [fields |-> <<fromFk>>, references |-> <<S_id>>,
                       onDelete |-> junctionOnDelete(relationConfig)]],
        [name |-> toSnakeCase(toModel), type |-> toModel,
         relation |-> [fields |-> <<toFk>>, references |-> <<S_id>>,
                       onDelete |-> "Cascade"]]
      >>,
      unique |-> << <<fromFk, toFk>> >>,
      indexes |-> << <<fromFk>>, <<toFk>> >>]

(***************************************************************************)
(* src/core/schema-builder.ts                                              *)
(***************************************************************************)
buildModelName(slug, config) ==
  LET name == toPascalCase(slug)
  IN IF config.prefix # <<>> THEN config.prefix \o name ELSE name

buildComponentTableName(parentModel, fieldKey, config) ==
  LET fieldName == IF endsWith(fieldKey, "s")
                     THEN SubSeq(fieldKey, 1, Len(fieldKey) - 1)
                     ELSE fieldKey
  IN IF config.convention = "snake_case"
       THEN toSnakeCase(parentModel) \o <<"_">> \o fieldName
       ELSE parentModel \o toPascalCase(fieldName)

buildIdField ==
  [name |-> S_id, type |-> T_String,
   attributes |-> <<"@id", "@default(cuid())">>]

buildTimestampFields ==
  <<[name |-> S_created_at, type |-> T_DateTime,
     attributes |-> <<"@default(now())">>],
    [name |-> S_updated_at, type |-> T_DateTime,
     attributes |-> <<"@updatedAt">>]>>

buildTranslationRelation(modelName) ==
  [name |-> S_translations, type |-> modelName \o S_Translation,
   list |-> TRUE, optional |-> TRUE]

\* Mutation: a field counts as translatable only when flagged true explicitly.
separateFields_explicitOnly(fields) ==
  [translatable |->
     SelectSeq(fields, LAMBDA f : /\ f.type \notin {"component", "relation"}
                                  /\ "translatable" \in DOMAIN f
                                  /\ f.translatable = TRUE),
   nonTranslatable |->
     SelectSeq(fields, LAMBDA f : /\ f.type # "component"
                                  /\ \/ f.type = "relation"
                                     \/ ~("translatable" \in DOMAIN f
                                          /\ f.translatable = TRUE)),
   components |-> SelectSeq(fields, LAMBDA f : f.type = "component")]

separateFields(fields) ==
  [translatable |->
     SelectSeq(fields, LAMBDA f : f.type \notin {"component", "relation"}
                                  /\ TranslatableFlag(f)),
   nonTranslatable |->
     SelectSeq(fields, LAMBDA f : f.type # "component"
                                  /\ (f.type = "relation" \/ ~TranslatableFlag(f))),
   components |-> SelectSeq(fields, LAMBDA f : f.type = "component")]

buildTranslationModel(baseModelName, translatableFields, config) ==
  [name |-> baseModelName \o S_Translation,
   map |-> toSnakeCase(baseModelName) \o S_translation_suffix,
   fields |->
     <<buildIdField,
       [name |-> toSnakeCase(baseModelName) \o S_suffix_id, type |-> T_String],
       [name |-> S_lang, type |-> T_String]>>
     \o FlatMapFields(translatableFields, config)
     \o <<[name |-> toSnakeCase(baseModelName), type |-> baseModelName,
           relation |-> [fields |-> <<toSnakeCase(baseModelName) \o S_suffix_id>>,
                         references |-> <<S_id>>, onDelete |-> "Cascade"]]>>,
   unique |-> << <<toSnakeCase(baseModelName) \o S_suffix_id, S_lang>> >>]

buildIndexes(fields, model) ==
  (IF "settings" \in DOMAIN model /\ "sortField" \in DOMAIN model.settings
     THEN << <<model.settings.sortField>> >> ELSE <<>>)
  \o (IF /\ \E i \in 1..Len(fields) : fields[i].key = S_status
         /\ \E i \in 1..Len(fields) : fields[i].key = S_published_at
        THEN << <<S_status, S_published_at>> >> ELSE <<>>)

RECURSIVE ComponentRefColumns(_, _, _)
\* for (const field of components) { if (field.config?.type === "component") push }
ComponentRefColumns(components, modelName, config) ==
  IF components = <<>> THEN <<>>
  ELSE (IF HasConfig(Head(components), "component")
          THEN <<[name |-> Head(components).key,
                  type |-> buildComponentTableName(modelName, Head(components).key, config),
                  list |-> Head(components).config.repeatable,
                  optional |-> TRUE]>>
          ELSE <<>>)
       \o ComponentRefColumns(Tail(components), modelName, config)

\* The inputs on which buildModel throws: a field it maps makes
\* mapFieldToPrisma throw (component fields are not mapped there).
buildModelThrows(model) ==
  AnyFieldThrows(SelectSeq(model.fields, LAMBDA f : f.type # "component"))

\* buildModel maps the non-translatable fields first, then the translatable
\* ones (on the base table or in buildTranslationModel).
buildModelError(model) ==
  LET sep == separateFields(model.fields)
  IN firstFieldError(sep.nonTranslatable \o sep.translatable)

\* Mutation: translatable fields are left out of the base table even when
\* i18n is disabled.
fieldsToInclude_nonTranslatableOnly(sep, config) == sep.nonTranslatable

\* config.i18nEnabled ? nonTranslatable : [...nonTranslatable, ...translatable]
fieldsToInclude(sep, config) ==
  IF config.i18nEnabled THEN sep.nonTranslatable
                        ELSE sep.nonTranslatable \o sep.translatable

buildModel(model, config) ==
  LET modelName == buildModelName(model.slug, config)
      sep == separateFields(model.fields)
      hasTranslation == config.i18nEnabled /\ Len(sep.translatable) > 0
      mainFields ==
        <<buildIdField>>
        \o FlatMapFields(fieldsToInclude(sep, config), config)
        \o buildTimestampFields
        \o ComponentRefColumns(sep.components, modelName, config)
        \o (IF hasTranslation THEN <<buildTranslationRelation(modelName)>>
                              ELSE <<>>)
      mainModel == [name |-> modelName, fields |-> mainFields,
                    indexes |-> buildIndexes(model.fields, model)]
  IN <<mainModel>>
     \o (IF hasTranslation
           THEN <<buildTranslationModel(modelName, sep.translatable, config)>>
           ELSE <<>>)

(***************************************************************************)
(* src/mappers/component-mapper.ts                                         *)
(***************************************************************************)
\* Mutation: every field that is not a relation or a component is taken to
\* be translatable, whatever its flag.
separateComponentFields_ignoreFlag(fields) ==
  [translatable |->
     SelectSeq(fields, LAMBDA f : f.type \notin {"component", "relation"}),
   nonTranslatable |->
     SelectSeq(fields, LAMBDA f : f.type \in {"component", "relation"})]

separateComponentFields(fields) ==
  [translatable |->
     SelectSeq(fields, LAMBDA f : f.type \notin {"component", "relation"}
                                  /\ TranslatableFlag(f)),
   nonTranslatable |->
     SelectSeq(fields, LAMBDA f : f.type \in {"component", "relation"}
                                  \/ ~TranslatableFlag(f))]

\* context?.abTesting?.enabled; an absent context is the record NoContext.
NoContext == [aiPrompt |-> Undefined]

AbTestingEnabled(context) ==
  /\ "abTesting" \in DOMAIN context
  /\ context.abTesting.enabled

\* Mutation: the uniqueness attribute is put on the repeatable case.
parentFkAttributes_inverted(repeatable) ==
  IF repeatable THEN <<"@unique">> ELSE <<>>

\* attributes: repeatable ? [] : ['@unique']
parentFkAttributes(repeatable) == IF repeatable THEN <<>> ELSE <<"@unique">>

\* ...(repeatable ? [{ name: 'order', type: 'Int', optional: true }] : [])
orderField(repeatable) ==
  IF repeatable THEN <<[name |-> S_order, type |-> T_Int, optional |-> TRUE]>>
                ELSE <<>>

buildComponentTable(parentModel, fieldKey, component, repeatable, config, context) ==
  LET tableName == buildComponentTableName(parentModel, fieldKey, config)
      parentFk == toSnakeCase(parentModel) \o S_suffix_id
      sep == separateComponentFields(component.fields)
      hasTranslation == config.i18nEnabled /\ Len(sep.translatable) > 0
      fields ==
        <<[name |-> S_id, type |-> T_String,
           attributes |-> <<"@id", "@default(cuid())">>],
          [name |-> parentFk, type |-> T_String,
           attributes |-> parentFkAttributes(repeatable)]>>
        \o orderField(repeatable)
        \o (IF AbTestingEnabled(context)
              THEN <<[name |-> S_variant_id, type |-> T_String, optional |-> TRUE],
                     [name |-> S_enabled, type |-> T_Boolean, optional |-> TRUE,
                      default |-> "true"]>>
              ELSE <<>>)
        \o FlatMapFields(IF config.i18nEnabled
                           THEN sep.nonTranslatable
                           ELSE sep.nonTranslatable \o sep.translatable, config)
        \o <<[name |-> S_created_at, type |-> T_DateTime,
              attributes |-> <<"@default(now())">>],
             [name |-> S_updated_at, type |-> T_DateTime,
              attributes |-> <<"@updatedAt">>],
             [name |-> toSnakeCase(parentModel), type |-> parentModel,
              relation |-> [fields |-> <<parentFk>>, references |-> <<S_id>>,
                            onDelete |-> "Cascade"]]>>
        \o (IF hasTranslation
              THEN <<[name |-> S_translations, type |-> tableName \o S_Translation,
                      list |-> TRUE]>>
              ELSE <<>>)
  IN [name |-> tableName, fields |-> fields,
      indexes |-> IF repeatable THEN << <<parentFk>> >> ELSE <<>>]

\* Returns <<>> for the source's null and <<table>> for a table.
buildComponentTranslationTable(parentModel, fieldKey, component, config) ==
  LET translatable == separateComponentFields(component.fields).translatable
      baseTableName == buildComponentTableName(parentModel, fieldKey, config)
      tableName == baseTableName \o S_Translation
      baseFk == toSnakeCase(baseTableName) \o S_suffix_id
  IN IF Len(translatable) = 0 THEN <<>>
     ELSE <<[name |-> tableName,
           map |-> toSnakeCase(tableName),
           fields |->
             <<[name |-> S_id, type |-> T_String,
                attributes |-> <<"@id", "@default(cuid())">>],
               [name |-> baseFk, type |-> T_String],
               [name |-> S_lang, type |-> T_String]>>
             \o FlatMapFields(translatable, config)
             \o <<[name |-> toSnakeCase(baseTableName), type |-> baseTableName,
                   relation |-> [fields |-> <<baseFk>>, references |-> <<S_id>>,
                                 onDelete |-> "Cascade"]]>>,
           unique |-> << <<baseFk, S_lang>> >>]>>

\* buildComponentTable and buildComponentTranslationTable between them map
\* every field of the component: the non-translatable ones first.
componentTablesError(component) ==
  LET sep == separateComponentFields(component.fields)
  IN firstFieldError(sep.nonTranslatable \o sep.translatable)

(***************************************************************************)
(* src/field-config-schema.ts: the definition schema.  Each schema is      *)
(* modelled by the predicate "parse succeeds" and by the defaults parse    *)
(* fills in.  Labels, names and display fields are strings the code only   *)
(* passes around.                                                          *)
(***************************************************************************)
Digits == <<"0","1","2","3","4","5","6","7","8","9">>

IsDigit(c) == \E i \in 1..Len(Digits) : Digits[i] = c

\* VALIDATION_PATTERNS.SLUG: /^[a-z][a-z0-9_-]*$/
matchesSlugPattern(str) ==
  /\ str # <<>>
  /\ IsLower(str[1])
  /\ \A i \in 2..Len(str) : IsLower(str[i]) \/ IsDigit(str[i]) \/ str[i] \in {"_", "-"}

RESERVED_FIELD_KEYS ==
  [COMPONENT_AB_TESTING |-> {S_variant_id, S_enabled},
   SYSTEM |-> {S_id, S_created_at, S_updated_at}]

CascadeTypes == {"restrict", "cascade", "setNull"}

NumberFormats == {"integer", "decimal", "currency", "percentage"}

\* FieldConfigSchema: a union discriminated by config.type, with the shape
\* of the member the discriminator selects.
FieldConfigSchemaAccepts(c) ==
  /\ "type" \in DOMAIN c
  /\ c.type \in FieldTypes
  /\ c.type = "relation" =>
       /\ "relationType" \in DOMAIN c /\ c.relationType \in RelationTypes
       /\ "targetModel" \in DOMAIN c
       /\ "displayField" \in DOMAIN c
       /\ "cascade" \in DOMAIN c => c.cascade \in CascadeTypes
  /\ c.type = "component" =>
       /\ "slug" \in DOMAIN c /\ matchesSlugPattern(c.slug)
       /\ "repeatable" \in DOMAIN c => c.repeatable \in BOOLEAN
  /\ c.type = "select" => "options" \in DOMAIN c /\ Len(c.options) >= 1
  /\ c.type = "number" => ("format" \in DOMAIN c => c.format \in NumberFormats)

FieldDefinitionSchemaAccepts(f) ==
  /\ "key" \in DOMAIN f
  /\ matchesSlugPattern(f.key)
  /\ f.key \notin RESERVED_FIELD_KEYS.SYSTEM
  /\ "label" \in DOMAIN f /\ f.label # ""
  /\ "type" \in DOMAIN f /\ f.type \in FieldTypes
  /\ "config" \in DOMAIN f => FieldConfigSchemaAccepts(f.config)
  /\ "required" \in DOMAIN f => f.required \in BOOLEAN

ModelConfigSchemaAccepts(raw) ==
  /\ "slug" \in DOMAIN raw /\ matchesSlugPattern(raw.slug)
  /\ "name" \in DOMAIN raw /\ raw.name # <<>>
  /\ "fields" \in DOMAIN raw /\ Len(raw.fields) >= 1
  /\ \A i \in 1..Len(raw.fields) : FieldDefinitionSchemaAccepts(raw.fields[i])
  /\ \A i, j \in 1..Len(raw.fields) : i # j => raw.fields[i].key # raw.fields[j].key

ComponentEntitySchemaAccepts(raw) ==
  /\ "slug" \in DOMAIN raw /\ matchesSlugPattern(raw.slug)
  /\ "name" \in DOMAIN raw /\ raw.name # <<>>
  /\ "fields" \in DOMAIN raw /\ Len(raw.fields) >= 1
  /\ \A i \in 1..Len(raw.fields) : FieldDefinitionSchemaAccepts(raw.fields[i])
  /\ ~\E i \in 1..Len(raw.fields) :
        raw.fields[i].key \in RESERVED_FIELD_KEYS.COMPONENT_AB_TESTING

\* rec with key set to value when rec has no such key: a zod .default().
WithDefault(rec, key, value) ==
  IF key \in DOMAIN rec THEN rec
  ELSE [k \in DOMAIN rec \cup {key} |-> IF k = key THEN value ELSE rec[k]]

FieldConfigDefaults(c) ==
  CASE c.type = "relation"  -> WithDefault(c, "cascade", "restrict")
    [] c.type = "component" -> WithDefault(c, "repeatable", FALSE)
    [] c.type = "media"     -> WithDefault(c, "multiple", FALSE)
    [] c.type = "date"      -> WithDefault(c, "format", "date")
    [] OTHER -> c

FieldDefinitionDefaults(f) ==
  LET g == WithDefault(f, "required", FALSE)
  IN IF "config" \in DOMAIN g
       THEN [g EXCEPT !.config = FieldConfigDefaults(g.config)]
       ELSE g

\* ModelConfigSchema.parse(raw): the value parse returns, or the ZodError.
ModelConfigSchemaParse(raw) ==
  IF ModelConfigSchemaAccepts(raw)
    THEN [success |-> TRUE,
          data |-> [raw EXCEPT !.fields =
                      [i \in 1..Len(raw.fields) |-> FieldDefinitionDefaults(raw.fields[i])]]]
    ELSE [success |-> FALSE, error |-> [name |-> "ZodError"]]

(***************************************************************************)
(* src/core/reader.ts.  A stored row is [id, slug, definition]; the        *)
(* definition column holds JSON text, modelled as [wellFormed, value]:     *)
(* JSON.parse returns value for well-formed text and throws a SyntaxError  *)
(* otherwise.  The data source is a record from table names to rows.       *)
(***************************************************************************)
defaultMapper(row) ==
  IF row.definition.wellFormed
    THEN [ok |-> TRUE, value |-> row.definition.value]
    ELSE [ok |-> FALSE, error |-> [name |-> "SyntaxError"]]

RECURSIVE readRows(_)
\* for (const row of rows): defaultMapper, ModelConfigSchema.parse, push; the
\* first row that fails throws.  (The Generator builds its readers without a
\* mapper argument.)
readRows(rows) ==
  IF rows = <<>> THEN [ok |-> TRUE, models |-> <<>>]
  ELSE LET row == Head(rows)
           transformed == defaultMapper(row)
           validated == ModelConfigSchemaParse(transformed.value)
           rest == readRows(Tail(rows))
       IN IF ~transformed.ok
            THEN [ok |-> FALSE,
                  error |-> [name |-> "Error", message |-> "Invalid JSON in model",
                             slug |-> row.slug, id |-> row.id]]
          ELSE IF ~validated.success
            THEN [ok |-> FALSE,
                  error |-> [name |-> "Error", message |-> "Validation failed for model",
                             slug |-> row.slug, id |-> row.id]]
          ELSE IF ~rest.ok THEN rest
          ELSE [ok |-> TRUE, models |-> <<validated.data>> \o rest.models]

\* EAVReader.readModels(): findMany on the table, then the rows.  The outer
\* catch re-throws as is only a message containing "validation" (lower
\* case), which none of the messages above does; everything else is wrapped.
readModels(prisma, tableName) ==
  LET read == IF tableName \in DOMAIN prisma
                THEN readRows(prisma[tableName])
                ELSE [ok |-> FALSE, error |-> [name |-> "TypeError"]]
  IN IF read.ok THEN read
     ELSE [ok |-> FALSE,
           error |-> [name |-> "Error",
                      message |-> "Failed to read models from database",
                      cause |-> read.error]]

(***************************************************************************)
(* Inputs: the definitions generate() is run on                            *)
(***************************************************************************)
SL_post     == <<"p","o","s","t">>
SL_tag      == <<"t","a","g">>
SL_post_tag == <<"p","o","s","t","-","t","a","g">>
SL_seo      == <<"s","e","o">>
SL_block    == <<"b","l","o","c","k">>

F_title ==
  [key |-> <<"t","i","t","l","e">>, type |-> "text", required |-> TRUE]

F_sku ==
  [key |-> <<"s","k","u">>, type |-> "text", required |-> FALSE,
   translatable |-> FALSE]

F_author ==
  [key |-> <<"a","u","t","h","o","r">>, type |-> "relation", required |-> FALSE,
   translatable |-> FALSE,
   config |-> [type |-> "relation", relationType |-> "manyToOne",
               targetModel |-> SL_tag, cascade |-> "setNull"]]

F_tags ==
  [key |-> <<"t","a","g","s">>, type |-> "relation", required |-> FALSE,
   config |-> [type |-> "relation", relationType |-> "manyToMany",
               targetModel |-> SL_tag, cascade |-> "cascade"]]

F_related ==
  [key |-> <<"r","e","l","a","t","e","d">>, type |-> "relation",
   required |-> FALSE, translatable |-> FALSE,
   config |-> [type |-> "relation", relationType |-> "manyToMany",
               targetModel |-> SL_post, cascade |-> "restrict"]]

F_more ==
  [key |-> <<"m","o","r","e">>, type |-> "relation",
   required |-> FALSE, translatable |-> FALSE,
   config |-> [type |-> "relation", relationType |-> "manyToMany",
               targetModel |-> SL_post, cascade |-> "restrict"]]

F_seo ==
  [key |-> SL_seo, type |-> "component", required |-> FALSE,
   config |-> [type |-> "component", slug |-> SL_seo, repeatable |-> FALSE]]

F_blocks ==
  [key |-> <<"b","l","o","c","k","s">>, type |-> "component", required |-> FALSE,
   config |-> [type |-> "component", slug |-> SL_block, repeatable |-> TRUE,
               context |-> [abTesting |-> [enabled |-> TRUE]]]]

F_hero ==
  [key |-> <<"h","e","r","o">>, type |-> "component", required |-> FALSE,
   translatable |-> FALSE,
   config |-> [type |-> "component", slug |-> SL_block, repeatable |-> FALSE]]

AsDerived(field) == [k \in DOMAIN field \cup {"derived"} |->
                       IF k = "derived" THEN TRUE ELSE field[k]]

FL_mixed    == <<F_title, F_sku>>
FL_plain    == <<F_sku, F_author>>
FL_twice    == <<F_related, F_more>>
FL_rich     == <<F_tags, F_seo, F_title>>
FL_comps    == <<F_blocks, F_hero>>
FL_derived  == <<AsDerived(F_title), F_sku, AsDerived(F_tags), AsDerived(F_seo)>>

Model(slug, fields) == [slug |-> slug, name |-> slug, fields |-> fields]

ModelPool ==
  { Model(SL_post, fl) :
      fl \in {FL_mixed, FL_plain, FL_twice, FL_rich, FL_comps, FL_derived} }
  \cup { Model(SL_tag, fl) : fl \in {FL_plain, FL_rich} }
  \cup { Model(SL_post_tag, FL_mixed) }

C_seo ==
  [slug |-> SL_seo, name |-> SL_seo,
   fields |-> <<[key |-> <<"m","e","t","a","_","t","i","t","l","e">>,
                 type |-> "text", required |-> FALSE],
                [key |-> S_order, type |-> "number", required |-> FALSE,
                 translatable |-> FALSE,
                 config |-> [type |-> "number", format |-> "integer",
                             default |-> Undefined]]>>]

C_block ==
  [slug |-> SL_block, name |-> SL_block,
   fields |-> <<[key |-> <<"b","o","d","y">>, type |-> "rich",
                 required |-> TRUE, translatable |-> FALSE]>>]

ComponentInputs == { <<C_seo>>, <<C_seo, C_block>> }

(***************************************************************************)
(* External schema files: what extractModelsFromPrismaFile returns for     *)
(* each path (the parser itself is an external collaborator).              *)
(***************************************************************************)
ExternalTable(name) == [name |-> name, fields |-> <<buildIdField>>]

T_User == <<"U","s","e","r">>
T_Post == <<"P","o","s","t">>

extractModelsFromPrismaFile(filePath) ==
  CASE filePath = "app.prisma" ->
         [ok |-> TRUE, models |-> <<ExternalTable(T_User), ExternalTable(T_Post)>>]
    [] filePath = "media.prisma" ->
         [ok |-> TRUE, models |-> <<ExternalTable(S_Media)>>]
    [] OTHER ->
         [ok |-> FALSE, message |-> "ENOENT"]

ExternalModelsInputs ==
  { [kind |-> "undefined"],
    [kind |-> "array", path |-> <<"media.prisma", "missing.prisma", "app.prisma">>],
    [kind |-> "object", path |-> <<"app.prisma">>,
     include |-> <<T_User, T_Post>>, exclude |-> <<T_User>>] }

Conventions == {"PascalCase", "snake_case"}

RECURSIVE SeqsUpTo(_, _)
\* The sequences over S of length 1..n.
SeqsUpTo(S, n) ==
  IF n = 0 THEN {}
  ELSE LET shorter == SeqsUpTo(S, n - 1)
       IN {<<x>> : x \in S} \cup shorter
          \cup {Append(q, x) : q \in shorter, x \in S}

(***************************************************************************)
(* Generator state (src/core/generator.ts)                                 *)
(*                                                                         *)
(*  config              the Config the Generator was constructed with      *)
(*  prismaClient        this.prismaClient: the data source, table -> rows  *)
(*  pc                  position inside generate() / write()               *)
(*  caller              which public method is running                     *)
(*  error               the error generate() / write() rejected with       *)
(*  warnings            this.warnings                                      *)
(*  externalModels      the local of generate() / loadExternalModels()     *)
(*  externalModelNames  this.externalModelNames                            *)
(*  pathIdx             loop index of loadExternalModels()                 *)
(*  models, components  the definitions read from the source               *)
(*  prismaModels, junctionTables, generated   locals of generate()         *)
(*  mi, fi              loop indices over models and model.fields          *)
(*  result              the GenerateResult returned                        *)
(*  disk                the file system write() acts on: [dirs, files]     *)
(*  origin, extOrigin   history variables: for each entry of prismaModels  *)
(*                      / externalModels, which statement pushed it        *)
(*  disk0               history variable: the file system at construction  *)
(*  heap                the arrays this.warnings referred to before the    *)
(*                      one it refers to now (whose content is warnings)   *)
(*  other               a second generate() call on the same Generator:    *)
(*                      its locals while it is not the one running         *)
(***************************************************************************)
VARIABLES config, pc, warnings, externalModels, externalModelNames, pathIdx,
          models, components, prismaModels, junctionTables, generated,
          mi, fi, result, origin, extOrigin,
          prismaClient, caller, error, disk, disk0, heap, other

vars == <<config, pc, warnings, externalModels, externalModelNames, pathIdx,
          models, components, prismaModels, junctionTables, generated,
          mi, fi, result, origin, extOrigin,
          prismaClient, caller, error, disk, disk0, heap, other>>

NoResult ==
  [schema |-> <<>>, componentsGenerated |-> <<>>, warnings |-> <<>>,
   warningsRef |-> 0]

NoError == [name |-> "none"]

\* The locals of a generate() call that has not been made yet.
NotCalled ==
  [pc |-> "idle", caller |-> "none", error |-> NoError, externalModels |-> <<>>,
   pathIdx |-> 1, models |-> <<>>, components |-> <<>>, prismaModels |-> <<>>,
   junctionTables |-> {}, generated |-> <<>>, mi |-> 1, fi |-> 1,
   result |-> NoResult, origin |-> <<>>, extOrigin |-> <<>>]

\* No data source: the Generator was given `input`.
NoClient == [content_model |-> <<>>]

EmptyDisk == [dirs |-> {}, files |-> <<>>]

ConfigInputs ==
  { [input |-> [models |-> ms, components |-> cs],
     naming |-> [convention |-> cv, prefix |-> <<>>],
     i18n |-> [enabled |-> en],
     externalModels |-> ex] :
      ms \in SeqsUpTo(ModelPool, MaxModels), cs \in ComponentInputs,
      cv \in Conventions, en \in BOOLEAN, ex \in ExternalModelsInputs }

\* The state of a Generator after construction, whatever it was given.
Constructed ==
  /\ pc = "idle"
  /\ caller = "none"
  /\ error = NoError
  /\ warnings = <<>>
  /\ externalModels = <<>>
  /\ externalModelNames = {}
  /\ pathIdx = 1
  /\ models = <<>>
  /\ components = <<>>
  /\ prismaModels = <<>>
  /\ junctionTables = {}
  /\ generated = <<>>
  /\ mi = 1
  /\ fi = 1
  /\ result = NoResult
  /\ origin = <<>>
  /\ extOrigin = <<>>
  /\ disk0 = disk
  /\ heap = <<>>
  /\ other = [call |-> NotCalled, overlapped |-> FALSE]

Init ==
  /\ config \in ConfigInputs
  /\ prismaClient = NoClient
  /\ disk = EmptyDisk
  /\ Constructed

resolveExternalPaths ==
  CASE config.externalModels.kind = "undefined" -> <<>>
    [] config.externalModels.kind = "string" -> <<config.externalModels.path>>
    [] OTHER -> config.externalModels.path

InSeq(x, seq) == \E i \in 1..Len(seq) : seq[i] = x

\* Mutation: `exclude` is consulted only when no `include` is given.
filterExternalModels_excludeUnlessInclude(extracted) ==
  IF config.externalModels.kind \in {"string", "array"} THEN extracted
  ELSE IF "include" \in DOMAIN config.externalModels
    THEN SelectSeq(extracted,
           LAMBDA m : InSeq(m.name, config.externalModels.include))
  ELSE IF "exclude" \in DOMAIN config.externalModels
    THEN SelectSeq(extracted,
           LAMBDA m : ~InSeq(m.name, config.externalModels.exclude))
  ELSE extracted

filterExternalModels(extracted) ==
  IF config.externalModels.kind \in {"string", "array"} THEN extracted
  ELSE LET included ==
             IF "include" \in DOMAIN config.externalModels
               THEN SelectSeq(extracted,
                      LAMBDA m : InSeq(m.name, config.externalModels.include))
               ELSE extracted
       IN IF "exclude" \in DOMAIN config.externalModels
            THEN SelectSeq(included,
                   LAMBDA m : ~InSeq(m.name, config.externalModels.exclude))
            ELSE included

schemaBuilderConfig ==
  [convention |-> config.naming.convention,
   prefix |-> config.naming.prefix,
   i18nEnabled |-> config.i18n.enabled,
   externalModelNames |-> externalModelNames]

\* Mutation: this.warnings is not replaced by a new array at entry.
StartGenerate_keepWarnings ==
  /\ pc = "idle"
  /\ caller' = "generate"
  /\ externalModels' = <<>>
  /\ extOrigin' = <<>>
  /\ pathIdx' = 1
  /\ pc' = "LoadingExternalModels"
  /\ UNCHANGED <<config, warnings, externalModelNames, models, components,
                 prismaModels, junctionTables, generated, mi, fi, result, origin,
                 prismaClient, error, disk, disk0, heap, other>>

\* generate() entry: this.warnings = [] and the start of loadExternalModels().
StartGenerate ==
  /\ pc = "idle"
  /\ caller' = "generate"
  /\ warnings' = <<>>
  /\ heap' = Append(heap, warnings)
  /\ externalModels' = <<>>
  /\ extOrigin' = <<>>
  /\ pathIdx' = 1
  /\ pc' = "LoadingExternalModels"
  /\ UNCHANGED <<config, externalModelNames, models, components, prismaModels,
                 junctionTables, generated, mi, fi, result, origin,
                 prismaClient, error, disk, disk0, other>>

\* `Failed to load external models from "${filePath}": ${message}`
loadFailedWarning(filePath, message) ==
  [text |-> "Failed to load external models from",
   path |-> filePath, message |-> message]

\* Mutation: the first path that fails to load ends the loop over paths.
LoadExternalPath_stopAtFailure ==
  /\ pc = "LoadingExternalModels"
  /\ pathIdx <= Len(resolveExternalPaths)
  /\ LET filePath == resolveExternalPaths[pathIdx]
         extracted == extractModelsFromPrismaFile(filePath)
     IN IF extracted.ok
          THEN LET filtered == filterExternalModels(extracted.models)
                   kept == SelectSeq([i \in 1..Len(extracted.models) |-> i],
                             LAMBDA i : InSeq(extracted.models[i], filtered))
               IN /\ externalModels' = externalModels \o filtered
                  /\ extOrigin' = extOrigin \o
                       [k \in 1..Len(kept) |->
                          [kind |-> "external", m |-> pathIdx, f |-> kept[k]]]
                  /\ pathIdx' = pathIdx + 1
                  /\ UNCHANGED warnings
          ELSE /\ warnings' = Append(warnings,
                                     loadFailedWarning(filePath, extracted.message))
               /\ pathIdx' = Len(resolveExternalPaths) + 1
               /\ UNCHANGED <<externalModels, extOrigin>>
  /\ UNCHANGED <<config, pc, externalModelNames, models, components,
                 prismaModels, junctionTables, generated, mi, fi, result, origin,
                 prismaClient, caller, error, disk, disk0, heap, other>>

\* One iteration of the loop over paths in loadExternalModels().
LoadExternalPath ==
  /\ pc = "LoadingExternalModels"
  /\ pathIdx <= Len(resolveExternalPaths)
  /\ LET filePath == resolveExternalPaths[pathIdx]
         extracted == extractModelsFromPrismaFile(filePath)
     IN IF extracted.ok
          THEN LET filtered == filterExternalModels(extracted.models)
                   kept == SelectSeq([i \in 1..Len(extracted.models) |-> i],
                             LAMBDA i : InSeq(extracted.models[i], filtered))
               IN /\ externalModels' = externalModels \o filtered
                  /\ extOrigin' = extOrigin \o
                       [k \in 1..Len(kept) |->
                          [kind |-> "external", m |-> pathIdx, f |-> kept[k]]]
                  /\ UNCHANGED warnings
          ELSE /\ warnings' = Append(warnings,
                                     loadFailedWarning(filePath, extracted.message))
               /\ UNCHANGED <<externalModels, extOrigin>>
  /\ pathIdx' = pathIdx + 1
  /\ UNCHANGED <<config, pc, externalModelNames, models, components,
                 prismaModels, junctionTables, generated, mi, fi, result, origin,
                 prismaClient, caller, error, disk, disk0, heap, other>>

\* await this.config.input.loader(): a loader is described by what it does,
\* [kind |-> "returns", result |-> ...] or [kind |-> "throws", error |-> ...].
callLoader(loader) ==
  IF loader.kind = "returns" THEN [ok |-> TRUE, result |-> loader.result]
                             ELSE [ok |-> FALSE, error |-> loader.error]

readModelsFromSource ==
  IF "input" \in DOMAIN config /\ "models" \in DOMAIN config.input
    THEN [ok |-> TRUE, models |-> config.input.models]
  ELSE IF "input" \in DOMAIN config /\ "loader" \in DOMAIN config.input
    THEN LET called == callLoader(config.input.loader)
         IN IF called.ok THEN [ok |-> TRUE, models |-> called.result.models]
                         ELSE called
  ELSE readModels(prismaClient, config.tables.models)

\* End of loadExternalModels(), this.externalModelNames and
\* readModelsFromSource(); an error thrown there rejects generate().
ReadModelsFromSource ==
  /\ pc = "LoadingExternalModels"
  /\ pathIdx > Len(resolveExternalPaths)
  /\ externalModelNames' = {externalModels[i].name : i \in 1..Len(externalModels)}
  /\ LET read == readModelsFromSource
     IN IF read.ok
          THEN models' = read.models /\ pc' = "ApplyingMapper" /\ error' = error
          ELSE models' = models /\ pc' = "Failed" /\ error' = read.error
  /\ UNCHANGED <<config, warnings, externalModels, pathIdx, components,
                 prismaModels, junctionTables, generated, mi, fi, result,
                 origin, extOrigin, prismaClient, caller, disk, disk0,
                 heap, other>>

\* A user-supplied mapper function, described by what it does to a row.
applyMapper(mapper, row) ==
  CASE mapper.kind = "identity" -> [ok |-> TRUE, value |-> row]
    [] mapper.kind = "throws"   -> [ok |-> FALSE, error |-> mapper.error]
    \* (row) => ({ name: row.slug, ...row })
    [] mapper.kind = "withName" ->
         [ok |-> TRUE, value |-> WithDefault(row, "name", row.slug)]
    \* (row) => ({ ...row, fields: [] })
    [] mapper.kind = "withoutFields" ->
         [ok |-> TRUE, value |-> [row EXCEPT !.fields = <<>>]]

RECURSIVE mapRows(_, _)
\* rows.map((r) => mapper(r)): the first call that throws ends the map.
mapRows(mapper, rows) ==
  IF rows = <<>> THEN [ok |-> TRUE, values |-> <<>>]
  ELSE LET first == applyMapper(mapper, Head(rows))
           rest == mapRows(mapper, Tail(rows))
       IN IF ~first.ok THEN first
          ELSE IF ~rest.ok THEN rest
          ELSE [ok |-> TRUE, values |-> <<first.value>> \o rest.values]

HasMapper(which) == "mapper" \in DOMAIN config /\ which \in DOMAIN config.mapper

\* if (this.config.mapper?.model) models = models.map(...)
ApplyModelMapper ==
  /\ pc = "ApplyingMapper"
  /\ LET mapped == IF HasMapper("model")
                     THEN mapRows(config.mapper.model, models)
                     ELSE [ok |-> TRUE, values |-> models]
     IN IF mapped.ok
          THEN models' = mapped.values /\ pc' = "ReadingComponents" /\ error' = error
          ELSE models' = models /\ pc' = "Failed" /\ error' = mapped.error
  /\ UNCHANGED <<config, warnings, externalModels, externalModelNames, pathIdx,
                 components, prismaModels, junctionTables, generated, mi, fi,
                 result, origin, extOrigin, prismaClient, caller, disk, disk0,
                 heap, other>>

\* for (const comp of components) map.set(comp.slug, comp): a later component
\* replaces an earlier one of its slug.
ComponentMap(list) ==
  [s \in {list[i].slug : i \in 1..Len(list)} |->
     list[CHOOSE i \in 1..Len(list) :
            /\ list[i].slug = s
            /\ \A j \in (i + 1)..Len(list) : list[j].slug # s]]

\* The optional mapper.component and the map, for a component list that
\* was read.
mapComponents(list) ==
  LET mapped == IF HasMapper("component")
                  THEN mapRows(config.mapper.component, list)
                  ELSE [ok |-> TRUE, values |-> list]
  IN IF mapped.ok THEN [ok |-> TRUE, map |-> ComponentMap(mapped.values)]
                  ELSE mapped

\* `Failed to read components: ${message}`
readComponentsWarning(err) ==
  [text |-> "Failed to read components", message |-> err]

\* readComponents(): [ok, map, warnings] or [ok |-> FALSE, error].  Only the
\* data-source branch catches what is thrown, and turns it into a warning.
readComponents ==
  IF "input" \in DOMAIN config /\ "components" \in DOMAIN config.input
    THEN LET res == mapComponents(config.input.components)
         IN IF res.ok THEN [ok |-> TRUE, map |-> res.map, warnings |-> <<>>]
                      ELSE res
  ELSE IF "input" \in DOMAIN config /\ "loader" \in DOMAIN config.input
    THEN LET called == callLoader(config.input.loader)
             res == mapComponents(called.result.components)
         IN IF ~called.ok THEN called
            ELSE IF "components" \notin DOMAIN called.result
              THEN [ok |-> TRUE, map |-> <<>>, warnings |-> <<>>]
            ELSE IF res.ok THEN [ok |-> TRUE, map |-> res.map, warnings |-> <<>>]
            ELSE res
  ELSE IF ~("tables" \in DOMAIN config /\ "components" \in DOMAIN config.tables)
    THEN [ok |-> TRUE, map |-> <<>>, warnings |-> <<>>]
  ELSE LET read == readModels(prismaClient, config.tables.components)
           res == mapComponents(read.models)
       IN IF ~read.ok
            THEN [ok |-> TRUE, map |-> <<>>,
                  warnings |-> <<readComponentsWarning(read.error)>>]
          ELSE IF ~res.ok
            THEN [ok |-> TRUE, map |-> <<>>,
                  warnings |-> <<readComponentsWarning(res.error)>>]
          ELSE [ok |-> TRUE, map |-> res.map, warnings |-> <<>>]

ReadComponents ==
  /\ pc = "ReadingComponents"
  /\ LET read == readComponents
     IN IF read.ok
          THEN /\ components' = read.map
               /\ warnings' = warnings \o read.warnings
               /\ pc' = "CompilingModels"
               /\ error' = error
          ELSE /\ components' = components
               /\ warnings' = warnings
               /\ pc' = "Failed"
               /\ error' = read.error
  /\ prismaModels' = <<>>
  /\ origin' = <<>>
  /\ junctionTables' = {}
  /\ mi' = 1
  /\ UNCHANGED <<config, externalModels, externalModelNames, pathIdx,
                 models, generated, fi, result, extOrigin,
                 prismaClient, caller, disk, disk0, heap, other>>

\* components.get(slug): <<>> when the map has no such key.
getComponent(slug) ==
  IF slug \in DOMAIN components THEN <<components[slug]>> ELSE <<>>

\* Mutation: the warning names the field key where the component slug belongs.
componentNotFoundWarning_keyForSlug(model, field) ==
  [text |-> "Component not found for field", slug |-> field.key,
   key |-> field.key, model |-> model.slug]

\* `Component "${slug}" not found for field "${key}" in model "${model.slug}"`
componentNotFoundWarning(model, field) ==
  [text |-> "Component not found for field", slug |-> field.config.slug,
   key |-> field.key, model |-> model.slug]

derivedWarnings(model) ==
  LET derived == SelectSeq(model.fields, IsDerived)
  IN [i \in 1..Len(derived) |->
        [text |-> "Skipped derived field", key |-> derived[i].key,
         model |-> model.slug]]

\* Top of the loop over models: the derived filter and buildModel().
CompileModel ==
  /\ pc = "CompilingModels"
  /\ mi <= Len(models)
  /\ LET model == models[mi]
         fieldsWithoutDerived == SelectSeq(model.fields, LAMBDA f : ~IsDerived(f))
         modelWithoutDerived == [model EXCEPT !.fields = fieldsWithoutDerived]
     IN /\ warnings' = warnings \o derivedWarnings(model)
        /\ IF buildModelThrows(modelWithoutDerived)
             THEN /\ pc' = "Failed"
                  /\ error' = buildModelError(modelWithoutDerived)
                  /\ UNCHANGED <<generated, prismaModels, origin, fi, mi>>
             ELSE /\ generated' = buildModel(modelWithoutDerived, schemaBuilderConfig)
                  /\ prismaModels' = prismaModels \o generated'
                  /\ origin' = origin \o
                       [k \in 1..Len(generated') |->
                          [kind |-> IF k = 1 THEN "base" ELSE "translation",
                           m |-> mi, f |-> 0]]
                  /\ error' = error
                  /\ IF Len(model.fields) = 0
                       THEN mi' = mi + 1 /\ fi' = fi /\ pc' = pc
                       ELSE mi' = mi /\ fi' = 1 /\ pc' = "EmittingDerivedTables"
  /\ UNCHANGED <<config, externalModels, externalModelNames, pathIdx, models,
                 components, junctionTables, result, extOrigin,
                 prismaClient, caller, disk, disk0, heap, other>>

\* One iteration of `for (const field of model.fields)`.
EmitDerivedTables ==
  /\ pc = "EmittingDerivedTables"
  /\ fi <= Len(models[mi].fields)
  /\ LET model == models[mi]
         field == model.fields[fi]
         isComponent == field.type = "component" /\ HasConfig(field, "component")
         component == IF isComponent THEN getComponent(field.config.slug) ELSE <<>>
         found == component # <<>>
         throws == found /\ AnyFieldThrows(component[1].fields)
         componentTables ==
           IF found
             THEN <<buildComponentTable(generated[1].name, field.key,
                      component[1], field.config.repeatable,
                      schemaBuilderConfig,
                      IF "context" \in DOMAIN field.config
                        THEN field.config.context ELSE NoContext)>>
                  \o (IF schemaBuilderConfig.i18nEnabled
                        THEN buildComponentTranslationTable(generated[1].name,
                               field.key, component[1], schemaBuilderConfig)
                        ELSE <<>>)
             ELSE <<>>
         \* `continue` after the warning skips the junction check; a component
         \* field never needs a junction table anyway.
         junction == IF needsJunctionTable(field) /\ ~(isComponent /\ ~found)
                       THEN <<buildJunctionTable(generated[1].name, field,
                                                 schemaBuilderConfig)>>
                       ELSE <<>>
         newJunction == IF junction # <<>> /\ junction[1].name \notin junctionTables
                          THEN junction ELSE <<>>
     IN IF throws
          THEN /\ pc' = "Failed"
               /\ error' = componentTablesError(component[1])
               /\ UNCHANGED <<warnings, prismaModels, origin, junctionTables, mi, fi>>
          ELSE /\ warnings' =
                    IF isComponent /\ ~found
                      THEN Append(warnings, componentNotFoundWarning(model, field))
                      ELSE warnings
               /\ prismaModels' = prismaModels \o componentTables \o newJunction
               /\ origin' = origin
                    \o [k \in 1..Len(componentTables) |->
                          [kind |-> IF k = 1 THEN "component" ELSE "componentTranslation",
                           m |-> mi, f |-> fi]]
                    \o [k \in 1..Len(newJunction) |->
                          [kind |-> "junction", m |-> mi, f |-> fi]]
               /\ junctionTables' = junctionTables
                    \cup {newJunction[k].name : k \in 1..Len(newJunction)}
               /\ error' = error
               /\ IF fi = Len(model.fields)
                    THEN mi' = mi + 1 /\ fi' = fi /\ pc' = "CompilingModels"
                    ELSE mi' = mi /\ fi' = fi + 1 /\ pc' = pc
  /\ UNCHANGED <<config, externalModels, externalModelNames, pathIdx, models,
                 components, generated, result, extOrigin,
                 prismaClient, caller, disk, disk0, heap, other>>

\* formatFieldType: the list suffix wins over the optional one.
formatFieldType(field) ==
  IF "list" \in DOMAIN field /\ field.list THEN field.type \o <<"[", "]">>
  ELSE IF "optional" \in DOMAIN field /\ field.optional THEN field.type \o <<"?">>
  ELSE field.type

\* writeSchemaSync: one block per table of schema.models, in order.
writeSchema(schema) ==
  [i \in 1..Len(schema.models) |-> [block |-> "model", model |-> schema.models[i]]]

\* Mutation: the generated tables are put before the external ones.
schemaModels_generatedFirst == prismaModels \o externalModels

\* models: [...externalModels, ...prismaModels]
schemaModels == externalModels \o prismaModels

\* After the loop: the PrismaSchema, writeSchema and the returned GenerateResult.
Serialize ==
  /\ pc = "CompilingModels"
  /\ mi > Len(models)
  /\ result' = [schema |-> writeSchema([models |-> schemaModels]),
                componentsGenerated |-> [i \in 1..Len(models) |-> models[i].slug],
                warnings |-> warnings,
                warningsRef |-> Len(heap) + 1]
  /\ pc' = "Done"
  /\ UNCHANGED <<config, warnings, externalModels, externalModelNames, pathIdx,
                 models, components, prismaModels, junctionTables, generated,
                 mi, fi, origin, extOrigin, prismaClient, caller, error, disk, disk0,
                 heap, other>>

(***************************************************************************)
(* Generator.write(): generate(), then mkdir and writeFile.  Paths are     *)
(* sequences of segments.                                                  *)
(***************************************************************************)
DefaultSchemaPath == <<".", "prisma", "schema.prisma">>

\* Mutation: the configured path is ignored.
outputPath_defaultOnly == DefaultSchemaPath

\* this.config.output?.schemaPath || "./prisma/schema.prisma"
outputPath ==
  IF /\ "output" \in DOMAIN config
     /\ "schemaPath" \in DOMAIN config.output
     /\ config.output.schemaPath # <<>>
    THEN config.output.schemaPath
    ELSE DefaultSchemaPath

\* path.dirname
dirname(path) ==
  IF Len(path) > 1 THEN SubSeq(path, 1, Len(path) - 1) ELSE <<".">>

\* fs.mkdir(dir, { recursive: true }): dir and every missing ancestor.
mkdir(dirs, dir) == dirs \cup { SubSeq(dir, 1, n) : n \in 1..Len(dir) }

\* fs.writeFile(path, data, "utf-8"): creates the file or replaces its content.
writeFile(files, path, data) ==
  [p \in DOMAIN files \cup {path} |-> IF p = path THEN data ELSE files[p]]

\* write() entry: the call of generate().
StartWrite ==
  /\ pc = "idle"
  /\ caller' = "write"
  /\ warnings' = <<>>
  /\ heap' = Append(heap, warnings)
  /\ externalModels' = <<>>
  /\ extOrigin' = <<>>
  /\ pathIdx' = 1
  /\ pc' = "LoadingExternalModels"
  /\ UNCHANGED <<config, externalModelNames, models, components, prismaModels,
                 junctionTables, generated, mi, fi, result, origin,
                 prismaClient, error, disk, disk0, other>>

\* await fs.mkdir(dir, { recursive: true }) once generate() has returned.
MakeDirectory ==
  /\ pc = "Done"
  /\ caller = "write"
  /\ disk' = [disk EXCEPT !.dirs = mkdir(disk.dirs, dirname(outputPath))]
  /\ pc' = "WritingFile"
  /\ UNCHANGED <<config, warnings, externalModels, externalModelNames, pathIdx,
                 models, components, prismaModels, junctionTables, generated,
                 mi, fi, result, origin, extOrigin, prismaClient, caller, error,
                 disk0, heap, other>>

\* await fs.writeFile(outputPath, result.schema, "utf-8")
WriteFile ==
  /\ pc = "WritingFile"
  /\ disk' = [disk EXCEPT !.files = writeFile(disk.files, outputPath, result.schema)]
  /\ pc' = "Written"
  /\ UNCHANGED <<config, warnings, externalModels, externalModelNames, pathIdx,
                 models, components, prismaModels, junctionTables, generated,
                 mi, fi, result, origin, extOrigin, prismaClient, caller, error,
                 disk0, heap, other>>

Next ==
  \/ StartGenerate
  \/ LoadExternalPath
  \/ ReadModelsFromSource
  \/ ApplyModelMapper
  \/ ReadComponents
  \/ CompileModel
  \/ EmitDerivedTables
  \/ Serialize

Spec == Init /\ [][Next]_vars

NextWrite ==
  \/ Next
  \/ StartWrite
  \/ MakeDirectory
  \/ WriteFile

\* The locals of the generate() call that is running.
Locals ==
  [pc |-> pc, caller |-> caller, error |-> error,
   externalModels |-> externalModels, pathIdx |-> pathIdx, models |-> models,
   components |-> components, prismaModels |-> prismaModels,
   junctionTables |-> junctionTables, generated |-> generated, mi |-> mi,
   fi |-> fi, result |-> result, origin |-> origin, extOrigin |-> extOrigin]

\* The running call is at one of its awaits: readModelsFromSource() has
\* settled, readComponents() has settled, or writeSchema() is awaited.
Awaiting ==
  \/ pc = "ApplyingMapper"
  \/ pc = "CompilingModels" /\ mi = 1 /\ prismaModels = <<>>
  \/ pc = "CompilingModels" /\ mi > Len(models)

Finished(label) == label \in {"Done", "Failed"}

\* The running call is suspended at an await, or has returned, and the other
\* generate() call on this Generator runs: it is made now if it had not been
\* made, otherwise it resumes where it was suspended.  The fields of the
\* instance (this.warnings, this.externalModelNames) stay as they are.
Yield ==
  /\ IF Finished(pc) THEN TRUE ELSE Awaiting
  /\ ~Finished(other.call.pc)
  /\ other' = [call |-> Locals,
               overlapped |-> IF Finished(pc) THEN other.overlapped ELSE TRUE]
  /\ pc' = other.call.pc
  /\ caller' = other.call.caller
  /\ error' = other.call.error
  /\ externalModels' = other.call.externalModels
  /\ pathIdx' = other.call.pathIdx
  /\ models' = other.call.models
  /\ components' = other.call.components
  /\ prismaModels' = other.call.prismaModels
  /\ junctionTables' = other.call.junctionTables
  /\ generated' = other.call.generated
  /\ mi' = other.call.mi
  /\ fi' = other.call.fi
  /\ result' = other.call.result
  /\ origin' = other.call.origin
  /\ extOrigin' = other.call.extOrigin
  /\ UNCHANGED <<config, warnings, externalModelNames, prismaClient, disk, disk0,
                 heap>>

NextCalls ==
  \/ Next
  \/ Yield

(***************************************************************************)
(* SpecExternal: generate() over the shapes of config.externalModels (a    *)
(* path, an array of paths, a descriptor with include and/or exclude; a    *)
(* descriptor's single path is written as a one-element array).            *)
(***************************************************************************)
T_user_lower == <<"u","s","e","r">>

ExternalModelsShapes ==
  { [kind |-> "string", path |-> "app.prisma"],
    [kind |-> "array", path |-> <<"app.prisma", "media.prisma">>],
    [kind |-> "object", path |-> <<"app.prisma", "media.prisma">>],
    [kind |-> "object", path |-> <<"app.prisma">>, include |-> <<T_User>>],
    [kind |-> "object", path |-> <<"media.prisma", "app.prisma">>,
     exclude |-> <<T_Post>>],
    [kind |-> "object", path |-> <<"app.prisma", "media.prisma">>,
     include |-> <<T_User, T_Post>>, exclude |-> <<T_User>>],
    [kind |-> "object", path |-> <<"app.prisma">>,
     include |-> <<T_user_lower, T_Post>>],
    [kind |-> "object", path |-> <<"app.prisma", "missing.prisma">>,
     exclude |-> <<T_user_lower>>],
    [kind |-> "object", path |-> <<"app.prisma">>, include |-> <<>>] }

ExternalConfigInputs ==
  { [input |-> [models |-> <<m>>, components |-> <<C_seo>>],
     naming |-> [convention |-> "PascalCase", prefix |-> <<>>],
     i18n |-> [enabled |-> en],
     externalModels |-> ex] :
      m \in {Model(SL_post, FL_rich), Model(SL_tag, FL_plain)},
      en \in BOOLEAN, ex \in ExternalModelsShapes }

InitExternal ==
  /\ config \in ExternalConfigInputs
  /\ prismaClient = NoClient
  /\ disk = EmptyDisk
  /\ Constructed

SpecExternal == InitExternal /\ [][Next]_vars

(***************************************************************************)
(* SpecNaming: generate() under every naming convention, with and without  *)
(* a prefix, on inputs whose relation fields target models of the input.   *)
(***************************************************************************)
P_Cms == <<"C","m","s">>

F_items ==
  [key |-> <<"i","t","e","m","s">>, type |-> "relation", required |-> FALSE,
   translatable |-> FALSE,
   config |-> [type |-> "relation", relationType |-> "oneToMany",
               targetModel |-> SL_post_tag, cascade |-> "restrict"]]

NamingModelInputs ==
  { <<Model(SL_post, <<F_tags, F_title>>), Model(SL_tag, FL_plain)>>,
    <<Model(SL_post, FL_twice)>>,
    <<Model(SL_tag, <<F_items, F_sku>>), Model(SL_post_tag, FL_mixed)>>,
    <<Model(SL_post, FL_rich), Model(SL_tag, FL_comps)>> }

NamingConfigInputs ==
  { [input |-> [models |-> ms, components |-> <<C_seo, C_block>>],
     naming |-> [convention |-> cv, prefix |-> px],
     i18n |-> [enabled |-> en],
     externalModels |-> [kind |-> "string", path |-> "media.prisma"]] :
      ms \in NamingModelInputs,
      cv \in {"PascalCase", "camelCase", "snake_case"},
      px \in {<<>>, P_Cms}, en \in BOOLEAN }

InitNaming ==
  /\ config \in NamingConfigInputs
  /\ prismaClient = NoClient
  /\ disk = EmptyDisk
  /\ Constructed

SpecNaming == InitNaming /\ [][Next]_vars

(***************************************************************************)
(* SpecPipeline: generate() and write() in the three input modes (direct   *)
(* arrays, a loader, rows of a data source), with and without mappers, on  *)
(* definitions that do and do not satisfy the definition schema.           *)
(***************************************************************************)
SL_article == <<"a","r","t","i","c","l","e">>

V_title ==
  [key |-> <<"t","i","t","l","e">>, label |-> "Title", type |-> "text",
   required |-> TRUE]

V_body ==
  [key |-> <<"b","o","d","y">>, label |-> "Body", type |-> "rich",
   required |-> FALSE, translatable |-> FALSE]

V_views ==
  [key |-> <<"v","i","e","w","s">>, label |-> "Views", type |-> "number",
   required |-> FALSE, translatable |-> FALSE,
   config |-> [type |-> "number", format |-> "integer", default |-> Undefined]]

V_live ==
  [key |-> <<"l","i","v","e">>, label |-> "Live", type |-> "boolean",
   required |-> TRUE, translatable |-> FALSE,
   config |-> [type |-> "boolean", default |-> "true"]]

V_day ==
  [key |-> <<"d","a","y">>, label |-> "Day", type |-> "date",
   required |-> FALSE, translatable |-> FALSE]

V_kind ==
  [key |-> <<"k","i","n","d">>, label |-> "Kind", type |-> "select",
   required |-> TRUE, translatable |-> FALSE,
   config |-> [type |-> "select", multiple |-> FALSE, options |-> <<"a", "b">>]]

V_meta ==
  [key |-> <<"m","e","t","a">>, label |-> "Meta", type |-> "json",
   required |-> FALSE, translatable |-> FALSE]

V_cover ==
  [key |-> <<"c","o","v","e","r">>, label |-> "Cover", type |-> "media",
   required |-> FALSE, translatable |-> FALSE,
   config |-> [type |-> "media", multiple |-> FALSE]]

V_author ==
  [key |-> <<"a","u","t","h","o","r">>, label |-> "Author", type |-> "relation",
   required |-> FALSE, translatable |-> FALSE,
   config |-> [type |-> "relation", relationType |-> "manyToOne",
               targetModel |-> SL_article, displayField |-> "title"]]

V_seo ==
  [key |-> SL_seo, label |-> "Seo", type |-> "component", required |-> FALSE,
   config |-> [type |-> "component", slug |-> SL_seo, repeatable |-> FALSE]]

\* A relation field without a config: the definition schema accepts it.
V_parent ==
  [key |-> <<"p","a","r","e","n","t">>, label |-> "Parent", type |-> "relation",
   required |-> FALSE]

\* A field of a type outside the ten known ones.
V_place ==
  [key |-> <<"p","l","a","c","e">>, label |-> "Place", type |-> "geo",
   required |-> FALSE]

\* A field with a reserved system key.
V_id == [key |-> S_id, label |-> "Id", type |-> "text", required |-> FALSE]

\* A field with a key reserved inside components.
V_enabled ==
  [key |-> S_enabled, label |-> "Enabled", type |-> "boolean",
   required |-> FALSE, translatable |-> FALSE,
   config |-> [type |-> "boolean", default |-> Undefined]]

\* A component-typed field nested in a component.
V_nested ==
  [key |-> <<"b","o","x">>, label |-> "Box", type |-> "component",
   required |-> FALSE,
   config |-> [type |-> "component", slug |-> SL_block, repeatable |-> TRUE]]

\* manyToMany fields, one for each value of cascade and one without it.
ManyToMany(key, target, cascade) ==
  [key |-> key, label |-> "Links", type |-> "relation", required |-> FALSE,
   config |-> [type |-> "relation", relationType |-> "manyToMany",
               targetModel |-> target, displayField |-> "title",
               cascade |-> cascade]]

V_links == ManyToMany(<<"l","i","n","k","s">>, <<"l","i","n","k">>, "cascade")

V_refs == ManyToMany(<<"r","e","f","s">>, <<"r","e","f">>, "restrict")

V_peers == ManyToMany(<<"p","e","e","r","s">>, <<"p","e","e","r">>, "setNull")

\* A manyToMany relation of the model to itself.
V_self == ManyToMany(<<"r","e","l","a","t","e","d">>, SL_article, "restrict")

V_others ==
  [key |-> <<"o","t","h","e","r","s">>, label |-> "Others", type |-> "relation",
   required |-> FALSE,
   config |-> [type |-> "relation", relationType |-> "manyToMany",
               targetModel |-> <<"o","t","h","e","r">>, displayField |-> "title"]]

PipelineModels ==
  { Model(SL_article, <<V_title, V_body, V_views, V_live, V_day, V_kind,
                        V_meta, V_cover, V_author, V_seo>>),
    Model(SL_article, <<V_title, V_seo>>),
    Model(SL_article, <<V_title, V_place>>),
    Model(SL_article, <<V_title, AsDerived(V_place)>>),
    Model(SL_article, <<V_parent, V_title>>),
    Model(SL_article, <<V_title, V_id>>),
    Model(SL_article, <<V_title, V_links, V_refs, V_peers, V_others>>),
    Model(SL_article, <<V_title, V_self>>),
    Model(SL_article, <<>>),
    [slug |-> SL_article, fields |-> <<V_title, V_seo>>] }

PipelineComponents ==
  { [slug |-> SL_seo, name |-> SL_seo, fields |-> <<V_title, V_views, V_nested>>],
    [slug |-> SL_seo, name |-> SL_seo, fields |-> <<V_title, V_enabled>>],
    [slug |-> SL_seo, name |-> SL_seo, fields |-> <<V_place>>] }

\* Rows of the data source.
Row(id, def) ==
  [id |-> id, slug |-> def.slug,
   definition |-> [wellFormed |-> TRUE, value |-> def]]

MalformedRow(id, slug) ==
  [id |-> id, slug |-> slug, definition |-> [wellFormed |-> FALSE]]

MapperError == [name |-> "Error", message |-> "mapper failed"]

MapperInputs ==
  { [model |-> [kind |-> "identity"], component |-> [kind |-> "identity"]],
    [model |-> [kind |-> "throws", error |-> MapperError]],
    [component |-> [kind |-> "throws", error |-> MapperError]],
    [model |-> [kind |-> "withName"]],
    [model |-> [kind |-> "withoutFields"]] }

\* Adds the key `mapper` to a config for each mapper setting, and leaves it
\* out once.
WithMappers(cfg) ==
  {cfg} \cup { [k \in DOMAIN cfg \cup {"mapper"} |->
                  IF k = "mapper" THEN mp ELSE cfg[k]] : mp \in MapperInputs }

BaseConfig ==
  [naming |-> [convention |-> "PascalCase", prefix |-> <<>>],
   i18n |-> [enabled |-> TRUE],
   externalModels |-> [kind |-> "string", path |-> "media.prisma"]]

WithKey(rec, key, value) ==
  [k \in DOMAIN rec \cup {key} |-> IF k = key THEN value ELSE rec[k]]

LoaderError == [name |-> "Error", message |-> "Network timeout"]

DirectInputs ==
  UNION { WithMappers(WithKey(BaseConfig, "input", [models |-> <<m>>, components |-> <<c>>])) :
            m \in PipelineModels, c \in PipelineComponents }

\* Two models in one input: the loop of generate() goes round twice.
TwoModelInputs ==
  { WithKey(BaseConfig, "input",
      [models |-> <<Model(SL_article, <<V_title, V_seo>>), Model(SL_tag, fields)>>,
       components |-> <<c>>]) :
      fields \in {<<V_title, V_links>>, <<V_title, V_place>>},
      c \in PipelineComponents }

LoaderInputs ==
  UNION { WithMappers(WithKey(BaseConfig, "input",
            [loader |-> [kind |-> "returns",
                         result |-> [models |-> <<m>>, components |-> <<c>>]]])) :
            m \in PipelineModels, c \in PipelineComponents }
  \cup { WithKey(BaseConfig, "input", [loader |-> [kind |-> "throws", error |-> LoaderError]]),
         WithKey(BaseConfig, "input",
            [loader |-> [kind |-> "returns",
                         result |-> [models |-> <<Model(SL_article, <<V_title, V_seo>>)>>]]]) }

DataSourceConfigs ==
  WithMappers(WithKey(BaseConfig, "tables",
                [models |-> "content_model", components |-> "components"]))
  \cup { WithKey(BaseConfig, "tables", [models |-> "content_model"]),
         WithKey(BaseConfig, "tables", [models |-> "content_model", components |-> "absent"]) }

DataSources ==
  { [content_model |-> <<Row("1", m)>>, components |-> <<Row("2", c)>>] :
      m \in PipelineModels, c \in PipelineComponents }
  \cup { [content_model |-> <<MalformedRow("1", SL_article)>>,
          components |-> <<>>],
         [content_model |-> <<Row("1", Model(SL_article, <<V_title, V_seo>>))>>,
          components |-> <<MalformedRow("2", SL_seo)>>] }

\* The file systems write() is run on, and the configured output path.
StaleSchema == <<[block |-> "model", model |-> ExternalTable(T_User)]>>

SeedPath == <<".", "prisma", "seed.ts">>

ContentPath == <<".", "db", "schema", "content.prisma">>

UsedDisk ==
  [dirs |-> {<<".">>, <<".", "prisma">>},
   files |-> [p \in {DefaultSchemaPath, SeedPath} |->
                IF p = SeedPath THEN <<[block |-> "seed"]>> ELSE StaleSchema]]

FreshDisk == [dirs |-> {<<".">>}, files |-> [p \in {} |-> <<>>]]

\* [config, prismaClient, disk]: everything a run starts from.
Placed(cfg, client) ==
  { [config |-> cfg, prismaClient |-> client, disk |-> UsedDisk],
    [config |-> WithKey(cfg, "output", [schemaPath |-> ContentPath]),
     prismaClient |-> client, disk |-> FreshDisk],
    [config |-> WithKey(cfg, "output", [schemaPath |-> <<>>]),
     prismaClient |-> client, disk |-> EmptyDisk] }

PipelineInputs ==
  UNION { Placed(cfg, NoClient) :
            cfg \in DirectInputs \cup TwoModelInputs \cup LoaderInputs }
  \cup UNION { Placed(cfg, client) : cfg \in DataSourceConfigs, client \in DataSources }

InitPipeline ==
  /\ \E inp \in PipelineInputs :
       /\ config = inp.config
       /\ prismaClient = inp.prismaClient
       /\ disk = inp.disk
  /\ Constructed

SpecPipeline == InitPipeline /\ [][NextWrite]_vars

(***************************************************************************)
(* SpecCalls: two generate() calls on one Generator, one after the other   *)
(* or interleaved at their awaits, on inputs that raise warnings.          *)
(***************************************************************************)
CallsModelInputs ==
  { <<Model(SL_post, FL_derived)>>,
    <<Model(SL_post, FL_comps)>>,
    <<Model(SL_post, FL_twice)>>,
    <<Model(SL_post, FL_rich), Model(SL_tag, FL_plain)>>,
    <<Model(SL_post, <<F_title, V_place>>)>> }

CallsConfigInputs ==
  { [input |-> [models |-> ms, components |-> <<C_seo>>],
     naming |-> [convention |-> "PascalCase", prefix |-> <<>>],
     i18n |-> [enabled |-> TRUE],
     externalModels |-> ex] :
      ms \in CallsModelInputs,
      ex \in { [kind |-> "string", path |-> "media.prisma"],
               [kind |-> "array", path |-> <<"missing.prisma", "app.prisma">>] } }

InitCalls ==
  /\ config \in CallsConfigInputs
  /\ prismaClient = NoClient
  /\ disk = EmptyDisk
  /\ Constructed

SpecCalls == InitCalls /\ [][NextCalls]_vars

(***************************************************************************)
(* SpecIndexes: generate() on models that declare settings.sortField and   *)
(* fields keyed status and published_at, translatable or not, with i18n    *)
(* enabled and disabled.                                                   *)
(***************************************************************************)
V_status ==
  [key |-> S_status, label |-> "Status", type |-> "text",
   required |-> FALSE, translatable |-> FALSE]

V_published_at ==
  [key |-> S_published_at, label |-> "Published at", type |-> "date",
   required |-> FALSE, translatable |-> FALSE]

\* The same two fields with the translatable flag left to its default.
V_status_i18n ==
  [key |-> S_status, label |-> "Status", type |-> "text", required |-> FALSE]

V_published_at_i18n ==
  [key |-> S_published_at, label |-> "Published at", type |-> "date",
   required |-> FALSE]

Sorted(slug, fields, sortField) ==
  [slug |-> slug, name |-> slug, displayField |-> <<"t","i","t","l","e">>,
   fields |-> fields, settings |-> [sortField |-> sortField]]

IndexModelInputs ==
  { <<Sorted(SL_post, <<V_views, V_status, V_published_at>>, S_published_at)>>,
    <<Sorted(SL_post, <<V_views, V_status, V_published_at>>, <<"v","i","e","w","s">>)>>,
    <<Sorted(SL_post, <<V_title, V_status, V_published_at>>, <<"t","i","t","l","e">>)>>,
    <<Sorted(SL_post, <<V_title, V_status_i18n, V_published_at_i18n>>, S_status)>>,
    <<Sorted(SL_post, <<V_title, V_seo, V_status>>, <<"r","a","n","k">>),
      Model(SL_tag, <<V_views, V_status, V_published_at>>)>>,
    <<Sorted(SL_post, <<V_title, V_links>>, <<"t","i","t","l","e">>),
      Model(SL_article, <<V_body, V_status_i18n, V_published_at>>)>> }

IndexConfigInputs ==
  { [input |-> [models |-> ms, components |-> <<C_seo>>],
     naming |-> [convention |-> cv, prefix |-> <<>>],
     i18n |-> [enabled |-> en],
     externalModels |-> [kind |-> "string", path |-> "media.prisma"]] :
      ms \in IndexModelInputs, cv \in {"PascalCase", "snake_case"},
      en \in BOOLEAN }

InitIndexes ==
  /\ config \in IndexConfigInputs
  /\ prismaClient = NoClient
  /\ disk = EmptyDisk
  /\ Constructed

SpecIndexes == InitIndexes /\ [][Next]_vars

(***************************************************************************)
(* Vocabulary of the properties                                            *)
(***************************************************************************)
\* The tables of the returned schema text, in block order.
Out == [i \in 1..Len(result.schema) |-> result.schema[i].model]

\* The tables handed to the serializer in declaration order, and for each of
\* them the statement that declared it.
Declared == externalModels \o prismaModels

Org == extOrigin \o origin

AllFields ==
  UNION { { <<m, f>> : f \in 1..Len(models[m].fields) } : m \in 1..Len(models) }

FieldAt(p) == models[p[1]].fields[p[2]]

ColumnNames(table) == { table.fields[k].name : k \in 1..Len(table.fields) }

Columns(table) == { table.fields[k] : k \in 1..Len(table.fields) }

HasAttribute(column, a) ==
  /\ "attributes" \in DOMAIN column
  /\ \E k \in 1..Len(column.attributes) : column.attributes[k] = a

IsManyToMany(field) ==
  /\ field.type = "relation"
  /\ "config" \in DOMAIN field
  /\ "relationType" \in DOMAIN field.config
  /\ field.config.relationType = "manyToMany"

IsComponentRef(field) ==
  /\ field.type = "component"
  /\ "config" \in DOMAIN field
  /\ "slug" \in DOMAIN field.config

\* Indices of the generated tables of a kind, among the declared tables.
OfKind(kinds) == { i \in 1..Len(Org) : Org[i].kind \in kinds }

EmittedFor(p, kinds) ==
  { i \in OfKind(kinds) : Org[i].m = p[1] /\ Org[i].f = p[2] }

BaseIndex(m) == CHOOSE i \in OfKind({"base"}) : Org[i].m = m

(***************************************************************************)
(* C1  After generate(), a junction table is emitted for a field iff the   *)
(* field is a relation with relationType manyToMany; the emitted junction  *)
(* tables have pairwise distinct names, each junction name a manyToMany    *)
(* field yields appears exactly once among them (also when the same        *)
(* self-referential relation is declared twice), and each junction table   *)
(* has a unique constraint over its two foreign-key columns.               *)
(***************************************************************************)
JunctionNameFor(p) ==
  buildJunctionTable(Out[BaseIndex(p[1])].name, FieldAt(p), schemaBuilderConfig).name

C1_JunctionTables ==
  pc = "Done" =>
    /\ Out = Declared
    /\ \A i \in OfKind({"junction"}) : IsManyToMany(FieldAt(<<Org[i].m, Org[i].f>>))
    /\ \A p \in AllFields :
         IsManyToMany(FieldAt(p)) =>
           Cardinality({ i \in OfKind({"junction"}) : Out[i].name = JunctionNameFor(p) }) = 1
    /\ \A i, j \in OfKind({"junction"}) : i # j => Out[i].name # Out[j].name
    /\ \A i \in OfKind({"junction"}) :
         /\ Out[i].fields[2].name # Out[i].fields[1].name
         /\ Out[i].unique = << <<Out[i].fields[2].name, Out[i].fields[3].name>> >>
         /\ Out[i].fields[6].relation.fields = <<Out[i].fields[2].name>>
         /\ Out[i].fields[7].relation.fields = <<Out[i].fields[3].name>>

\* A run in which one model declares the same self-referential manyToMany
\* relation twice and exactly one junction table came out of it.
C1_Witness ==
  /\ pc = "Done"
  /\ \E p, q \in AllFields :
       /\ p[1] = q[1] /\ p[2] < q[2]
       /\ IsManyToMany(FieldAt(p)) /\ IsManyToMany(FieldAt(q))
       /\ FieldAt(p).config.targetModel = models[p[1]].slug
       /\ FieldAt(q).config.targetModel = models[p[1]].slug
       /\ EmittedFor(p, {"junction"}) # {}
       /\ EmittedFor(q, {"junction"}) = {}

(***************************************************************************)
(* C2  For every component table built by buildComponentTable: the parent  *)
(* foreign-key column carries the uniqueness attribute iff the component   *)
(* is not repeatable, and the table has an `order` column iff the          *)
(* component is repeatable.                                                *)
(***************************************************************************)
ParentFkColumn(table) ==
  LET back == CHOOSE k \in 1..Len(table.fields) :
                "relation" \in DOMAIN table.fields[k]
  IN table.fields[CHOOSE k \in 1..Len(table.fields) :
                    table.fields[k].name = table.fields[back].relation.fields[1]]

C2_Original ==
  \A i \in 1..Len(origin) :
    origin[i].kind = "component" =>
      LET table == prismaModels[i]
          repeatable == FieldAt(<<origin[i].m, origin[i].f>>).config.repeatable
      IN /\ HasAttribute(ParentFkColumn(table), "@unique") <=> ~repeatable
         /\ (S_order \in ColumnNames(table)) <=> repeatable

\* Amended: the builder's own `order` column is there iff repeatable; every
\* other column named `order` comes from a component field of that key.
PlacedOrderFields(component) ==
  { k \in 1..Len(component.fields) :
      /\ mapFieldToPrisma(component.fields[k], schemaBuilderConfig)[1].name = S_order
      /\ \/ ~schemaBuilderConfig.i18nEnabled
         \/ component.fields[k].type \in {"component", "relation"}
         \/ ~TranslatableFlag(component.fields[k]) }

C2_ComponentTable ==
  \A i \in 1..Len(origin) :
    origin[i].kind = "component" =>
      LET table == prismaModels[i]
          field == FieldAt(<<origin[i].m, origin[i].f>>)
          repeatable == field.config.repeatable
      IN /\ HasAttribute(ParentFkColumn(table), "@unique") <=> ~repeatable
         /\ Cardinality({ k \in 1..Len(table.fields) : table.fields[k].name = S_order })
              = (IF repeatable THEN 1 ELSE 0)
                + Cardinality(PlacedOrderFields(components[field.config.slug]))

\* Both a repeatable and a non-repeatable component table have been built,
\* the non-repeatable one without any `order` column.
C2_Witness ==
  \E i, j \in 1..Len(origin) :
    /\ origin[i].kind = "component" /\ origin[j].kind = "component"
    /\ FieldAt(<<origin[i].m, origin[i].f>>).config.repeatable
    /\ ~FieldAt(<<origin[j].m, origin[j].f>>).config.repeatable
    /\ S_order \in ColumnNames(prismaModels[i])
    /\ S_order \notin ColumnNames(prismaModels[j])
    /\ HasAttribute(ParentFkColumn(prismaModels[j]), "@unique")

(***************************************************************************)
(* C3  buildModel returns a translation table for a model iff i18n is      *)
(* enabled and the model has at least one translatable field (neither      *)
(* relation nor component, translatable flag not false); without one no    *)
(* returned table is named <Model>Translation; when present, the           *)
(* translation table has a unique constraint over (owner FK, lang).        *)
(* Checked on every call generate() makes: `generated` is what buildModel  *)
(* returned for the model without its derived fields.                      *)
(***************************************************************************)
BuildModelArgument ==
  [models[mi] EXCEPT !.fields = SelectSeq(models[mi].fields, LAMBDA f : ~IsDerived(f))]

IsTranslatableField(field) ==
  /\ field.type \notin {"relation", "component"}
  /\ ~("translatable" \in DOMAIN field /\ field.translatable = FALSE)

HasTranslatableField(model) ==
  \E k \in 1..Len(model.fields) : IsTranslatableField(model.fields[k])

C3_TranslationTable ==
  pc = "EmittingDerivedTables" =>
    LET expected == config.i18n.enabled /\ HasTranslatableField(BuildModelArgument)
        translationName == generated[1].name \o S_Translation
    IN /\ Len(generated) = (IF expected THEN 2 ELSE 1)
       /\ ~expected => \A k \in 1..Len(generated) : generated[k].name # translationName
       /\ expected =>
            /\ generated[2].name = translationName
            /\ generated[2].unique = << <<generated[2].fields[2].name, S_lang>> >>
            /\ generated[2].fields[3].name = S_lang
            /\ \E k \in 1..Len(generated[2].fields) :
                 /\ "relation" \in DOMAIN generated[2].fields[k]
                 /\ generated[2].fields[k].type = generated[1].name
                 /\ generated[2].fields[k].relation.fields = <<generated[2].fields[2].name>>

\* i18n is enabled, the model has fields but none translatable, and buildModel
\* returned the base table alone.
C3_Witness ==
  /\ pc = "EmittingDerivedTables"
  /\ config.i18n.enabled
  /\ Len(BuildModelArgument.fields) > 0
  /\ ~HasTranslatableField(BuildModelArgument)
  /\ Len(generated) = 1

(***************************************************************************)
(* C4  Every non-component field of the model buildModel is given is       *)
(* placed on exactly one table: on the translation table when i18n is      *)
(* enabled and the field is translatable, on the base table otherwise.     *)
(* With i18n disabled every field is on the base table and there is no     *)
(* translation table; relation fields are always on the base table.        *)
(***************************************************************************)
OnTable(field, table) ==
  mapFieldToPrisma(field, schemaBuilderConfig)[1] \in Columns(table)

C4_FieldPlacement ==
  pc = "EmittingDerivedTables" =>
    /\ ~config.i18n.enabled => Len(generated) = 1
    /\ \A k \in 1..Len(BuildModelArgument.fields) :
         LET field == BuildModelArgument.fields[k]
             onBase == OnTable(field, generated[1])
             onTranslation == Len(generated) = 2 /\ OnTable(field, generated[2])
         IN field.type # "component" =>
              IF config.i18n.enabled /\ IsTranslatableField(field)
                THEN onTranslation /\ ~onBase
                ELSE onBase /\ ~onTranslation

\* i18n is disabled and a field explicitly or implicitly translatable sits
\* next to a non-translatable one on the single base table.
C4_Witness ==
  /\ pc = "EmittingDerivedTables"
  /\ ~config.i18n.enabled
  /\ Len(generated) = 1
  /\ \E k, l \in 1..Len(BuildModelArgument.fields) :
       /\ IsTranslatableField(BuildModelArgument.fields[k])
       /\ BuildModelArgument.fields[l].type = "text"
       /\ ~IsTranslatableField(BuildModelArgument.fields[l])
       /\ OnTable(BuildModelArgument.fields[k], generated[1])
       /\ OnTable(BuildModelArgument.fields[l], generated[1])

(***************************************************************************)
(* C5  When a component field references a slug absent from the component  *)
(* map, generate() still succeeds, emits no component table and no         *)
(* component translation table for that field, and records exactly one     *)
(* warning for it, containing the field key, the component slug and the    *)
(* model slug.                                                             *)
(***************************************************************************)
Unresolved ==
  { p \in AllFields :
      IsComponentRef(FieldAt(p)) /\ FieldAt(p).config.slug \notin DOMAIN components }

NotFoundWarnings ==
  { i \in 1..Len(result.warnings) :
      result.warnings[i].text = "Component not found for field" }

C5_MissingComponent ==
  /\ Unresolved # {} => pc # "Failed"
  /\ pc = "Done" =>
       /\ Cardinality(NotFoundWarnings) = Cardinality(Unresolved)
       /\ \A p \in Unresolved :
            /\ EmittedFor(p, {"component", "componentTranslation"}) = {}
            /\ \E i \in NotFoundWarnings :
                 /\ result.warnings[i].key = FieldAt(p).key
                 /\ result.warnings[i].slug = FieldAt(p).config.slug
                 /\ result.warnings[i].model = models[p[1]].slug

\* generate() has returned for an input with an unresolved component field
\* next to a resolved one.
C5_Witness ==
  /\ pc = "Done"
  /\ Unresolved # {}
  /\ NotFoundWarnings # {}
  /\ OfKind({"component"}) # {}

(***************************************************************************)
(* C6  When a model's component field references a component that cannot   *)
(* be resolved, the field is skipped in the output: the model's base table *)
(* contains no column for that field.                                      *)
(***************************************************************************)
C6_UnresolvedFieldSkipped ==
  pc = "Done" =>
    \A p \in Unresolved : FieldAt(p).key \notin ColumnNames(Out[BaseIndex(p[1])])

(***************************************************************************)
(* C7  A field flagged derived is excluded from the output of generate():  *)
(* no column on any table, no component table, component translation       *)
(* table or junction table because of it, whatever its type; exactly one   *)
(* 'Skipped derived field' warning names its key and model slug.           *)
(***************************************************************************)
DerivedFields == { p \in AllFields : IsDerived(FieldAt(p)) }

TablesOfModel(m) == { i \in 1..Len(Org) : Org[i].kind # "external" /\ Org[i].m = m }

C7_DerivedExcluded ==
  pc = "Done" =>
    \A p \in DerivedFields :
      /\ EmittedFor(p, {"component", "componentTranslation", "junction"}) = {}
      /\ \A i \in TablesOfModel(p[1]) :
           Org[i].kind \in {"base", "translation"} =>
             /\ FieldAt(p).key \notin ColumnNames(Out[i])
             /\ FieldAt(p).key \o S_suffix_id \notin ColumnNames(Out[i])
      /\ Cardinality({ i \in 1..Len(result.warnings) :
                         /\ result.warnings[i].text = "Skipped derived field"
                         /\ result.warnings[i].key = FieldAt(p).key
                         /\ result.warnings[i].model = models[p[1]].slug })
           = Cardinality({ q \in DerivedFields :
                             /\ FieldAt(q).key = FieldAt(p).key
                             /\ models[q[1]].slug = models[p[1]].slug })

(***************************************************************************)
(* C8  For any input whose model slugs are pairwise distinct, every        *)
(* generated table name (base, translation, component, component           *)
(* translation, junction) is globally unique.                              *)
(***************************************************************************)
DistinctSlugs ==
  \A m, n \in 1..Len(models) : m # n => models[m].slug # models[n].slug

C8_UniqueTableNames ==
  (pc = "Done" /\ DistinctSlugs) =>
    \A i, j \in 1..Len(Out) :
      (i # j /\ Org[i].kind # "external" /\ Org[j].kind # "external")
        => Out[i].name # Out[j].name

(***************************************************************************)
(* C9  When an external table and a generated table have the same name,    *)
(* the last one wins: the final table list contains only the               *)
(* later-declared table under that name.                                   *)
(***************************************************************************)
C9_LastWins ==
  pc = "Done" =>
    \A i, j \in 1..Len(Declared) :
      (/\ i < j
       /\ Declared[i].name = Declared[j].name
       /\ Org[i].kind = "external"
       /\ Org[j].kind # "external")
        => LET last == CHOOSE k \in 1..Len(Declared) :
                         /\ Declared[k].name = Declared[i].name
                         /\ \A l \in (k + 1)..Len(Declared) :
                              Declared[l].name # Declared[i].name
           IN { Out[k] : k \in { l \in 1..Len(Out) : Out[l].name = Declared[i].name } }
                = { Declared[last] }
              /\ Cardinality({ l \in 1..Len(Out) : Out[l].name = Declared[i].name }) = 1

(***************************************************************************)
(* C10  The table blocks of the output are ordered: first all external     *)
(* tables, in path order and in file order within a path; then the         *)
(* generated tables in model declaration order, each base table            *)
(* immediately followed by its translation table if any, then, per field   *)
(* in declaration order, that field's component table, component           *)
(* translation table and junction table.                                   *)
(***************************************************************************)
KindRank(kind) ==
  CASE kind \in {"external", "base", "component"} -> 0
    [] kind \in {"translation", "componentTranslation"} -> 1
    [] kind = "junction" -> 2

OrderKey(o) == <<IF o.kind = "external" THEN 0 ELSE 1, o.m, o.f, KindRank(o.kind)>>

LexLess(a, b) ==
  \E k \in 1..4 : a[k] < b[k] /\ \A l \in 1..(k - 1) : a[l] = b[l]

C10_BlockOrder ==
  pc = "Done" =>
    /\ Out = Declared
    /\ Len(Org) = Len(Out)
    /\ \A i \in 1..Len(Out) :
         /\ Org[i].kind \in {"base", "translation"} <=> (Org[i].kind # "external" /\ Org[i].f = 0)
         /\ i < Len(Out) => LexLess(OrderKey(Org[i]), OrderKey(Org[i + 1]))
         /\ Org[i].kind = "translation" =>
              i > 1 /\ Org[i - 1].kind = "base" /\ Org[i - 1].m = Org[i].m

\* An output with two external tables from different paths, two models, a
\* translation table, a component table with its translation table and a
\* junction table.
C10_Witness ==
  /\ pc = "Done"
  /\ \E i, j \in OfKind({"external"}) : Org[i].m < Org[j].m
  /\ \E i, j \in OfKind({"base"}) : Org[i].m < Org[j].m
  /\ OfKind({"translation"}) # {}
  /\ OfKind({"componentTranslation"}) # {}
  /\ OfKind({"junction"}) # {}

(***************************************************************************)
(* C11  With a structured externalModels descriptor, the external tables   *)
(* that reach the output are exactly the loaded tables whose name is in    *)
(* `include` (when include is given) and is not in `exclude` (when exclude *)
(* is given), by exact case-sensitive name; exclude is applied after       *)
(* include, so a name in both lists is dropped.  With a plain path or an   *)
(* array of paths no table is filtered out.                                *)
(***************************************************************************)
RECURSIVE LoadedTables(_)
\* Every table of every path that loads, in path order.
LoadedTables(paths) ==
  IF paths = <<>> THEN <<>>
  ELSE (IF extractModelsFromPrismaFile(Head(paths)).ok
          THEN extractModelsFromPrismaFile(Head(paths)).models ELSE <<>>)
       \o LoadedTables(Tail(paths))

Survives(name) ==
  \/ config.externalModels.kind \in {"string", "array"}
  \/ /\ config.externalModels.kind = "object"
     /\ "include" \in DOMAIN config.externalModels =>
          \E i \in 1..Len(config.externalModels.include) :
            config.externalModels.include[i] = name
     /\ "exclude" \in DOMAIN config.externalModels =>
          \A i \in 1..Len(config.externalModels.exclude) :
            config.externalModels.exclude[i] # name

ExpectedExternal ==
  SelectSeq(LoadedTables(resolveExternalPaths), LAMBDA t : Survives(t.name))

C11_ExternalFilter ==
  pc = "Done" =>
    /\ Len(Out) >= Len(ExpectedExternal)
    /\ SubSeq(Out, 1, Len(ExpectedExternal)) = ExpectedExternal
    /\ Cardinality(OfKind({"external"})) = Len(ExpectedExternal)
    /\ \A i \in 1..Len(Out) : Org[i].kind = "external" <=> i <= Len(ExpectedExternal)

\* A descriptor with both lists where one loaded table is named in both and
\* dropped, another only in include and kept, and a third in neither list
\* and dropped.
C11_Witness ==
  /\ pc = "Done"
  /\ config.externalModels.kind = "object"
  /\ "include" \in DOMAIN config.externalModels
  /\ "exclude" \in DOMAIN config.externalModels
  /\ \E i \in 1..Len(LoadedTables(resolveExternalPaths)) :
       LET name == LoadedTables(resolveExternalPaths)[i].name
       IN /\ InSeq(name, config.externalModels.include)
          /\ InSeq(name, config.externalModels.exclude)
          /\ \A k \in OfKind({"external"}) : Out[k].name # name
  /\ \E k \in OfKind({"external"}) : InSeq(Out[k].name, config.externalModels.include)
  /\ \E i \in 1..Len(LoadedTables(resolveExternalPaths)) :
       LET name == LoadedTables(resolveExternalPaths)[i].name
       IN /\ ~InSeq(name, config.externalModels.include)
          /\ ~InSeq(name, config.externalModels.exclude)
          /\ \A k \in OfKind({"external"}) : Out[k].name # name

(***************************************************************************)
(* C12  If loading one external-model path fails, generate() does not      *)
(* fail: it records one warning for that path, takes zero tables from it,  *)
(* still loads every other path, and still emits all generated tables.     *)
(***************************************************************************)
FailingPaths ==
  { p \in 1..Len(resolveExternalPaths) :
      ~extractModelsFromPrismaFile(resolveExternalPaths[p]).ok }

LoadWarnings(filePath) ==
  { i \in 1..Len(result.warnings) :
      /\ result.warnings[i].text = "Failed to load external models from"
      /\ result.warnings[i].path = filePath }

C12_LoadFailure ==
  /\ FailingPaths # {} => pc # "Failed"
  /\ pc = "Done" =>
       /\ \A p \in FailingPaths :
            /\ Cardinality(LoadWarnings(resolveExternalPaths[p]))
                 = Cardinality({ q \in FailingPaths :
                                   resolveExternalPaths[q] = resolveExternalPaths[p] })
            /\ \A i \in LoadWarnings(resolveExternalPaths[p]) :
                 result.warnings[i].message
                   = extractModelsFromPrismaFile(resolveExternalPaths[p]).message
            /\ \A i \in OfKind({"external"}) : Org[i].m # p
       /\ \A p \in (1..Len(resolveExternalPaths)) \ FailingPaths :
            LET expected ==
                  filterExternalModels(
                    extractModelsFromPrismaFile(resolveExternalPaths[p]).models)
            IN /\ Cardinality({ i \in OfKind({"external"}) : Org[i].m = p })
                    = Len(expected)
               /\ \A k \in 1..Len(expected) :
                    \E i \in OfKind({"external"}) : Org[i].m = p /\ Out[i] = expected[k]
       /\ Cardinality(OfKind({"external"})) = Len(ExpectedExternal)
       /\ \A m \in 1..Len(models) :
            Cardinality({ i \in OfKind({"base"}) : Org[i].m = m }) = 1
       /\ Len(Out) = Len(Org)

\* generate() has returned although the second of three paths failed to
\* load: tables of the first and of the third path are in the output, with
\* the generated tables after them.
C12_Witness ==
  /\ pc = "Done"
  /\ \E p \in FailingPaths :
       /\ \E i \in OfKind({"external"}) : Org[i].m < p
       /\ \E i \in OfKind({"external"}) : Org[i].m > p
       /\ LoadWarnings(resolveExternalPaths[p]) # {}
  /\ OfKind({"base"}) # {}

(***************************************************************************)
(* C13  For every oneToMany or manyToMany relation field whose targetModel *)
(* is the slug of a model in the same input, the field yields exactly one  *)
(* list-relation column and no physical foreign-key column, and that       *)
(* column's type equals the name of the base table generate() emits for    *)
(* the target model, under every naming convention and every prefix.       *)
(***************************************************************************)
IsListRelation(field) ==
  /\ field.type = "relation"
  /\ "config" \in DOMAIN field
  /\ "relationType" \in DOMAIN field.config
  /\ field.config.relationType \in {"oneToMany", "manyToMany"}

\* The models of the input a relation field targets.
TargetsOf(field) ==
  { t \in 1..Len(models) : models[t].slug = field.config.targetModel }

C13_ListRelationType ==
  pc = "Done" =>
    \A p \in AllFields :
      (IsListRelation(FieldAt(p)) /\ ~IsDerived(FieldAt(p))) =>
        \A t \in TargetsOf(FieldAt(p)) :
          LET base == Out[BaseIndex(p[1])]
              cols == { k \in 1..Len(base.fields) : base.fields[k].name = FieldAt(p).key }
          IN /\ Cardinality(cols) = 1
             /\ \A k \in cols :
                  /\ "list" \in DOMAIN base.fields[k] /\ base.fields[k].list
                  /\ base.fields[k].type = Out[BaseIndex(t)].name
             /\ FieldAt(p).key \o S_suffix_id \notin ColumnNames(base)

(***************************************************************************)
(* C14  For every manyToMany relation field whose target is a model of the *)
(* same input, the junction table's name is the concatenation of the       *)
(* owner's table name and the target model's table name under the active   *)
(* convention, and the types of its two relation columns equal the names   *)
(* of the owner's and the target's generated base tables, for every naming *)
(* convention and every prefix.                                            *)
(***************************************************************************)
C14_JunctionNaming ==
  pc = "Done" =>
    \A p \in AllFields :
      (IsManyToMany(FieldAt(p)) /\ ~IsDerived(FieldAt(p))) =>
        \A t \in TargetsOf(FieldAt(p)) :
          \A i \in EmittedFor(p, {"junction"}) :
            LET owner == Out[BaseIndex(p[1])].name
                target == Out[BaseIndex(t)].name
                relations == SelectSeq(Out[i].fields,
                                       LAMBDA c : "relation" \in DOMAIN c)
            IN /\ Out[i].name = buildJunctionTableName(owner, target, schemaBuilderConfig)
               /\ Len(relations) = 2
               /\ relations[1].type = owner
               /\ relations[2].type = target

(***************************************************************************)
(* C15  The configured naming convention is applied to every synthesized   *)
(* table name: under snake_case every table emitted by generate() (base,   *)
(* translation, component, junction) has a snake_case name, under          *)
(* camelCase a camelCase name, under PascalCase a PascalCase name.         *)
(***************************************************************************)
IsAlphanumeric(c) == IsLower(c) \/ IsUpper(c) \/ IsDigit(c)

IsSnakeCaseName(name) ==
  /\ name # <<>> /\ IsLower(name[1])
  /\ \A i \in 1..Len(name) : IsLower(name[i]) \/ IsDigit(name[i]) \/ name[i] = "_"

IsCamelCaseName(name) ==
  /\ name # <<>> /\ IsLower(name[1])
  /\ \A i \in 1..Len(name) : IsAlphanumeric(name[i])

IsPascalCaseName(name) ==
  /\ name # <<>> /\ IsUpper(name[1])
  /\ \A i \in 1..Len(name) : IsAlphanumeric(name[i])

FollowsConvention(name) ==
  CASE config.naming.convention = "snake_case" -> IsSnakeCaseName(name)
    [] config.naming.convention = "camelCase"  -> IsCamelCaseName(name)
    [] config.naming.convention = "PascalCase" -> IsPascalCaseName(name)

C15_ConventionApplied ==
  pc = "Done" =>
    \A i \in 1..Len(Out) :
      Org[i].kind # "external" => FollowsConvention(Out[i].name)


(***************************************************************************)
(* What a run of generate() reads and passes to the mappers.               *)
(***************************************************************************)
InputMode ==
  IF "input" \in DOMAIN config /\ "models" \in DOMAIN config.input THEN "direct"
  ELSE IF "input" \in DOMAIN config /\ "loader" \in DOMAIN config.input THEN "loader"
  ELSE "database"

\* The component definitions of the source, before mapper.component.
componentSource ==
  CASE InputMode = "direct" ->
         [ok |-> TRUE,
          list |-> IF "components" \in DOMAIN config.input
                     THEN config.input.components ELSE <<>>]
    [] InputMode = "loader" ->
         LET called == callLoader(config.input.loader)
         IN IF ~called.ok THEN [ok |-> FALSE]
            ELSE [ok |-> TRUE,
                  list |-> IF "components" \in DOMAIN called.result
                             THEN called.result.components ELSE <<>>]
    [] InputMode = "database" ->
         IF "components" \notin DOMAIN config.tables
           THEN [ok |-> TRUE, list |-> <<>>]
           ELSE LET read == readModels(prismaClient, config.tables.components)
                IN IF read.ok THEN [ok |-> TRUE, list |-> read.models]
                              ELSE [ok |-> FALSE]

\* mapper.model is called on a row that was read, and throws.
ModelMapperThrows ==
  /\ HasMapper("model")
  /\ readModelsFromSource.ok
  /\ ~mapRows(config.mapper.model, readModelsFromSource.models).ok

\* mapper.component is called on a component that was read, and throws.
ComponentMapperThrows ==
  /\ HasMapper("component")
  /\ readModelsFromSource.ok
  /\ ~ModelMapperThrows
  /\ componentSource.ok
  /\ ~mapRows(config.mapper.component, componentSource.list).ok

PastModelMapper ==
  {"ReadingComponents", "CompilingModels", "EmittingDerivedTables", "Done",
   "WritingFile", "Written"}

PastComponents ==
  {"CompilingModels", "EmittingDerivedTables", "Done", "WritingFile", "Written"}

(***************************************************************************)
(* C16  In every input mode, when mapper.model or mapper.component throws  *)
(* on a definition that was read, generate() stops there and fails with    *)
(* the mapper's error: it never goes on to compile a schema, and the error *)
(* is never turned into a warning.                                         *)
(***************************************************************************)
C16_MapperErrorAborts ==
  /\ ModelMapperThrows =>
       /\ pc \notin PastModelMapper
       /\ pc = "Failed" => error = config.mapper.model.error
  /\ ComponentMapperThrows =>
       /\ pc \notin PastComponents
       /\ pc = "Failed" => error = config.mapper.component.error
       /\ \A i \in 1..Len(warnings) :
            warnings[i] # readComponentsWarning(config.mapper.component.error)

\* A stored row whose definition is not JSON, or whose definition the
\* schema `accepts` does not accept.
RowIsInvalid(row, accepts(_)) ==
  ~row.definition.wellFormed \/ ~accepts(row.definition.value)

\* Some model definition of the source does not satisfy ModelConfigSchema.
InvalidModelInSource ==
  CASE InputMode = "direct" ->
         \E i \in 1..Len(config.input.models) :
           ~ModelConfigSchemaAccepts(config.input.models[i])
    [] InputMode = "loader" ->
         LET called == callLoader(config.input.loader)
         IN called.ok /\ \E i \in 1..Len(called.result.models) :
                           ~ModelConfigSchemaAccepts(called.result.models[i])
    [] InputMode = "database" ->
         /\ config.tables.models \in DOMAIN prismaClient
         /\ \E i \in 1..Len(prismaClient[config.tables.models]) :
              RowIsInvalid(prismaClient[config.tables.models][i],
                           ModelConfigSchemaAccepts)

\* Some component definition of the source does not satisfy
\* ComponentEntitySchema.
InvalidComponentInSource ==
  CASE InputMode = "direct" ->
         /\ "components" \in DOMAIN config.input
         /\ \E i \in 1..Len(config.input.components) :
              ~ComponentEntitySchemaAccepts(config.input.components[i])
    [] InputMode = "loader" ->
         LET called == callLoader(config.input.loader)
         IN /\ called.ok
            /\ "components" \in DOMAIN called.result
            /\ \E i \in 1..Len(called.result.components) :
                 ~ComponentEntitySchemaAccepts(called.result.components[i])
    [] InputMode = "database" ->
         /\ "components" \in DOMAIN config.tables
         /\ config.tables.components \in DOMAIN prismaClient
         /\ \E i \in 1..Len(prismaClient[config.tables.components]) :
              RowIsInvalid(prismaClient[config.tables.components][i],
                           ComponentEntitySchemaAccepts)

(***************************************************************************)
(* C17  In every input mode, a model or component definition of the source *)
(* that fails validation (or a stored definition that is not parseable)    *)
(* makes generate() fail: the run never gets to compiling tables.          *)
(***************************************************************************)
C17_InvalidDefinitionAborts ==
  (InvalidModelInSource \/ InvalidComponentInSource) => pc \notin PastComponents

\* The definition has a field whose key is one of `keys`.
HasFieldKeyed(definition, keys) ==
  \E i \in 1..Len(definition.fields) : definition.fields[i].key \in keys

(***************************************************************************)
(* C18  No definition with a reserved field key is compiled into a table,  *)
(* whichever way it entered: in the schema generate() returns, no base     *)
(* table comes from a model with a field keyed id, created_at or           *)
(* updated_at, and no component table from a component with a field keyed  *)
(* id, created_at, updated_at, variant_id or enabled.                      *)
(***************************************************************************)
C18_ReservedKeysRejected ==
  pc = "Done" =>
    /\ \A i \in OfKind({"base"}) :
         ~HasFieldKeyed(models[Org[i].m], RESERVED_FIELD_KEYS.SYSTEM)
    /\ \A p \in AllFields : \A i \in EmittedFor(p, {"component"}) :
         ~HasFieldKeyed(components[FieldAt(p).config.slug],
                        RESERVED_FIELD_KEYS.SYSTEM
                          \cup RESERVED_FIELD_KEYS.COMPONENT_AB_TESTING)

\* Every field of a definition the run has read.
FieldsRead ==
  { FieldAt(p) : p \in AllFields }
  \cup UNION { { components[s].fields[i] : i \in 1..Len(components[s].fields) } :
                 s \in DOMAIN components }

\* A field of one of the ten types whose config is the one its type needs.
IsMappable(field) ==
  /\ field.type \in FieldTypes
  /\ field.type = "relation" =>
       HasConfig(field, "relation") /\ field.config.relationType \in RelationTypes
  /\ field.type = "component" => HasConfig(field, "component")

\* generate() applies mapFieldToPrisma to a field it throws on: a field of a
\* model that is neither derived nor a component reference, or a field of a
\* component that a component reference of a model resolves to.
MappedFieldThrows ==
  \/ \E p \in AllFields :
       /\ ~IsDerived(FieldAt(p))
       /\ FieldAt(p).type # "component"
       /\ mapFieldThrows(FieldAt(p))
  \/ \E p \in AllFields :
       /\ FieldAt(p).type = "component"
       /\ HasConfig(FieldAt(p), "component")
       /\ FieldAt(p).config.slug \in DOMAIN components
       /\ AnyFieldThrows(components[FieldAt(p).config.slug].fields)

Returned == {"Done", "WritingFile", "Written"}

TargetPath ==
  IF "output" \in DOMAIN config /\ config.output.schemaPath # <<>>
    THEN config.output.schemaPath
    ELSE <<".", "prisma", "schema.prisma">>

\* The directories above a path.
ParentDirectories(path) == { SubSeq(path, 1, n) : n \in 1..(Len(path) - 1) }

(***************************************************************************)
(* C20  write() runs generate() first and touches the file system only     *)
(* after generate() has returned: it then creates the missing parent       *)
(* directories of the configured path (default ./prisma/schema.prisma) and *)
(* writes exactly the returned schema to that path, replacing an existing  *)
(* file and leaving every other file as it was.  generate() alone, and a   *)
(* write() whose generate() fails, create no directory and write no file.  *)
(***************************************************************************)
C20_Write ==
  /\ pc \notin {"WritingFile", "Written"} => disk = disk0
  /\ (caller = "write" /\ pc = "Failed") => error # NoError
  /\ pc \in {"WritingFile", "Written"} =>
       /\ caller = "write"
       /\ result # NoResult
       /\ disk.dirs = disk0.dirs \cup ParentDirectories(TargetPath)
  /\ pc = "WritingFile" => disk.files = disk0.files
  /\ pc = "Written" =>
       /\ DOMAIN disk.files = DOMAIN disk0.files \cup {TargetPath}
       /\ disk.files[TargetPath] = result.schema
       /\ result.schema = writeSchema([models |-> externalModels \o prismaModels])
       /\ \A p \in DOMAIN disk0.files \ {TargetPath} : disk.files[p] = disk0.files[p]

\* write() has replaced a stale schema file and left its neighbour alone.
C20_Witness ==
  /\ pc = "Written"
  /\ TargetPath \in DOMAIN disk0.files
  /\ disk0.files[TargetPath] # result.schema
  /\ disk.files[TargetPath] = result.schema
  /\ Len(prismaModels) > 0
  /\ \E p \in DOMAIN disk.files : p # TargetPath

\* A component field of a model whose component is in the component map.
IsResolved(p) ==
  /\ FieldAt(p).type = "component"
  /\ HasConfig(FieldAt(p), "component")
  /\ FieldAt(p).config.slug \in DOMAIN components

ComponentOf(p) == components[FieldAt(p).config.slug]

\* The fields of a component that are translated: neither relations nor
\* nested components, and not flagged translatable: false.
TranslatedFields(component) ==
  { component.fields[i] : i \in { k \in 1..Len(component.fields) :
      /\ component.fields[k].type \notin {"component", "relation"}
      /\ ~("translatable" \in DOMAIN component.fields[k]
           /\ component.fields[k].translatable = FALSE) } }

\* The table has a column that stores the field.
Stores(table, field) ==
  \E c \in Columns(table) : c.name \in {field.key, field.key \o S_suffix_id}

\* The columns of a table that point to another table of the schema.
RelationColumns(table) == { c \in Columns(table) : "relation" \in DOMAIN c }

(***************************************************************************)
(* C21  For every resolved component field in generate(): exactly one      *)
(* component table is emitted; a component translation table is emitted    *)
(* iff i18n is enabled and the component has a translatable field; the     *)
(* component table has a `translations` list column, typed by the          *)
(* translation table, iff that table is emitted; the translation table has *)
(* one unique constraint, over its foreign key to the component table and  *)
(* `lang`, and besides id, foreign key, lang and the back relation it      *)
(* holds exactly the translatable fields, none of which is stored on the   *)
(* component table.                                                        *)
(***************************************************************************)
C21_ComponentTranslation ==
  pc = "Done" =>
    \A p \in AllFields : IsResolved(p) =>
      LET tables == EmittedFor(p, {"component"})
          translations == EmittedFor(p, {"componentTranslation"})
          translated == TranslatedFields(ComponentOf(p))
      IN /\ Cardinality(tables) = 1
         /\ Cardinality(translations) <= 1
         /\ translations # {} <=>
              (schemaBuilderConfig.i18nEnabled /\ translated # {})
         /\ \A i \in tables :
              /\ (\E c \in Columns(Out[i]) : c.name = S_translations) <=>
                   translations # {}
              /\ \A c \in Columns(Out[i]) : c.name = S_translations =>
                   /\ "list" \in DOMAIN c /\ c.list
                   /\ \A j \in translations : c.type = Out[j].name
              /\ translations # {} =>
                   \A field \in translated : ~Stores(Out[i], field)
              /\ \A j \in translations :
                   /\ Cardinality(RelationColumns(Out[j])) = 1
                   /\ \A r \in RelationColumns(Out[j]) :
                        /\ r.type = Out[i].name
                        /\ Len(r.relation.fields) = 1
                        /\ Out[j].unique = << <<r.relation.fields[1], S_lang>> >>
                        /\ r.relation.fields[1] \in ColumnNames(Out[j])
                   /\ S_lang \in ColumnNames(Out[j])
                   /\ \A field \in translated : Stores(Out[j], field)
                   /\ Len(Out[j].fields) = 4 + Cardinality(translated)

\* With i18n enabled, one resolved component field has a translation table
\* and another, whose component has no translatable field, has none.
C21_Witness ==
  /\ pc = "Done"
  /\ schemaBuilderConfig.i18nEnabled
  /\ \E p, q \in AllFields :
       /\ IsResolved(p) /\ EmittedFor(p, {"componentTranslation"}) # {}
       /\ \E field \in Columns([fields |-> ComponentOf(p).fields]) :
            "translatable" \in DOMAIN field /\ ~field.translatable
       /\ IsResolved(q) /\ TranslatedFields(ComponentOf(q)) = {}
       /\ EmittedFor(q, {"component"}) # {}
       /\ EmittedFor(q, {"componentTranslation"}) = {}

\* The cascade setting of a relation field, "undefined" when it has none.
CascadeOf(field) ==
  IF "cascade" \in DOMAIN field.config THEN field.config.cascade ELSE Undefined

(***************************************************************************)
(* C22  In every junction table emitted for a manyToMany field, the        *)
(* owner-side relation (the first relation column) has on-delete Cascade   *)
(* exactly when the field's cascade setting is `cascade` and Restrict for  *)
(* every other setting (restrict, setNull, none), and the target-side      *)
(* relation (the second) always has on-delete Cascade.                     *)
(***************************************************************************)
C22_JunctionOnDelete ==
  pc = "Done" =>
    \A p \in AllFields : \A i \in EmittedFor(p, {"junction"}) :
      LET relations == SelectSeq(Out[i].fields, LAMBDA c : "relation" \in DOMAIN c)
      IN /\ Len(relations) = 2
         /\ relations[1].relation.onDelete =
              (IF CascadeOf(FieldAt(p)) = "cascade" THEN "Cascade" ELSE "Restrict")
         /\ relations[1].relation.onDelete \in {"Cascade", "Restrict"}
         /\ relations[2].relation.onDelete = "Cascade"

\* One schema holds junction tables for cascade, restrict and setNull.
C22_Witness ==
  /\ pc = "Done"
  /\ \A c \in {"cascade", "restrict", "setNull"} :
       \E p \in AllFields :
         /\ EmittedFor(p, {"junction"}) # {}
         /\ CascadeOf(FieldAt(p)) = c

\* The messages of the errors mapFieldToPrisma throws.
TranslatorMessages ==
  {"Unknown field type", "Invalid relation field", "Unknown relation type",
   "Invalid component field"}

\* The stage changes of a run.  The source is read at the end of
\* LoadingExternalModels (models) and in ReadingComponents (components);
\* the schema is serialized in the step from CompilingModels to Done.
ReadStageChanges ==
  { <<"idle", "LoadingExternalModels">>,
    <<"LoadingExternalModels", "ApplyingMapper">>,
    <<"LoadingExternalModels", "Failed">>,
    <<"ApplyingMapper", "ReadingComponents">>,
    <<"ApplyingMapper", "Failed">>,
    <<"ReadingComponents", "CompilingModels">>,
    <<"ReadingComponents", "Failed">>,
    <<"CompilingModels", "EmittingDerivedTables">>,
    <<"EmittingDerivedTables", "CompilingModels">>,
    <<"CompilingModels", "Done">>,
    <<"Done", "WritingFile">>,
    <<"WritingFile", "Written">> }

CompileStages == {"CompilingModels", "EmittingDerivedTables"}

rawModelRows ==
  CASE InputMode = "direct" -> [ok |-> TRUE, rows |-> config.input.models]
    [] InputMode = "loader" ->
         LET called == callLoader(config.input.loader)
         IN IF called.ok THEN [ok |-> TRUE, rows |-> called.result.models]
                         ELSE [ok |-> FALSE]
    [] InputMode = "database" ->
         LET table == config.tables.models
         IN IF /\ table \in DOMAIN prismaClient
               /\ \A i \in 1..Len(prismaClient[table]) :
                    prismaClient[table][i].definition.wellFormed
              THEN [ok |-> TRUE,
                    rows |-> [i \in 1..Len(prismaClient[table]) |->
                                prismaClient[table][i].definition.value]]
              ELSE [ok |-> FALSE]

\* generate() has failed on the validation of a model row.
FailedOnValidation ==
  /\ pc = "Failed"
  /\ "cause" \in DOMAIN error
  /\ error.cause.message = "Validation failed for model"

(***************************************************************************)
(* C24  Whenever mapper.model is configured and returns for every raw row  *)
(* of the source, what is validated is the mapper's result, in every input *)
(* mode: if the schema accepts every result, generate() does not fail on   *)
(* validation (no raw row is validated before the mapper), and if the      *)
(* schema rejects a result, generate() does not go on to read components   *)
(* and compile.                                                            *)
(***************************************************************************)
C24_MapperBeforeValidation ==
  (HasMapper("model") /\ rawModelRows.ok) =>
    LET mapped == mapRows(config.mapper.model, rawModelRows.rows)
    IN mapped.ok =>
         IF \A i \in 1..Len(mapped.values) : ModelConfigSchemaAccepts(mapped.values[i])
           THEN ~FailedOnValidation
           ELSE pc \notin PastModelMapper

(***************************************************************************)
(* The two generate() calls of SpecCalls and what each should return.      *)
(***************************************************************************)
Calls == {Locals, other.call}

\* The array a returned warnings reference points to, as it is now.
Deref(ref) == IF ref = Len(heap) + 1 THEN warnings ELSE heap[ref]

RECURSIVE RaisedByLoading(_)
\* The warnings loadExternalModels() raises over a list of paths.
RaisedByLoading(paths) ==
  IF paths = <<>> THEN <<>>
  ELSE LET extracted == extractModelsFromPrismaFile(Head(paths))
       IN (IF extracted.ok THEN <<>>
           ELSE <<[text |-> "Failed to load external models from",
                   path |-> Head(paths), message |-> extracted.message]>>)
          \o RaisedByLoading(Tail(paths))

RECURSIVE RaisedByFields(_, _, _)
\* The warnings the loop over the fields of a model raises.
RaisedByFields(model, fields, componentMap) ==
  IF fields = <<>> THEN <<>>
  ELSE LET field == Head(fields)
       IN (IF /\ field.type = "component"
              /\ HasConfig(field, "component")
              /\ field.config.slug \notin DOMAIN componentMap
             THEN <<[text |-> "Component not found for field",
                     slug |-> field.config.slug, key |-> field.key,
                     model |-> model.slug]>>
             ELSE <<>>)
          \o RaisedByFields(model, Tail(fields), componentMap)

RECURSIVE RaisedByModels(_, _)
\* The warnings the loop over the models raises.
RaisedByModels(ms, componentMap) ==
  IF ms = <<>> THEN <<>>
  ELSE LET model == Head(ms)
           derived == SelectSeq(model.fields, IsDerived)
       IN [i \in 1..Len(derived) |->
             [text |-> "Skipped derived field", key |-> derived[i].key,
              model |-> model.slug]]
          \o RaisedByFields(model, model.fields, componentMap)
          \o RaisedByModels(Tail(ms), componentMap)

\* The warnings raised by one call that has returned.
RaisedBy(call) ==
  RaisedByLoading(resolveExternalPaths)
  \o RaisedByModels(call.models, call.components)

(***************************************************************************)
(* C25  When two generate() calls on one Generator interleave at their     *)
(* awaits, each call that returns returns exactly the warnings it raised,  *)
(* and the array it returned keeps holding exactly those.                  *)
(***************************************************************************)
C25_PrivateAccumulators ==
  \A call \in Calls :
    call.pc = "Done" =>
      /\ call.result.warnings = RaisedBy(call)
      /\ Deref(call.result.warningsRef) = RaisedBy(call)

(***************************************************************************)
(* C28  When generate() is called again on a Generator after the previous  *)
(* call has returned or failed, with configuration and inputs unchanged,   *)
(* each call returns exactly the warnings it raised, the second call       *)
(* returns the same schema, model slugs and warnings as the first, in an   *)
(* array of its own, and the array the first call returned is left as it   *)
(* was returned.                                                           *)
(***************************************************************************)
C28_RepeatedCalls ==
  ~other.overlapped =>
    /\ \A call \in Calls :
         call.pc = "Done" =>
           /\ call.result.warnings = RaisedBy(call)
           /\ Deref(call.result.warningsRef) = call.result.warnings
    /\ (pc = "Done" /\ other.call.pc = "Done") =>
         /\ result.schema = other.call.result.schema
         /\ result.componentsGenerated = other.call.result.componentsGenerated
         /\ result.warnings = other.call.result.warnings
         /\ result.warningsRef # other.call.result.warningsRef
    /\ (Finished(pc) /\ Finished(other.call.pc)) =>
         /\ pc = other.call.pc
         /\ error = other.call.error

\* A second call has returned after the first one had, both with warnings
\* and a junction table.
C28_Witness ==
  /\ ~other.overlapped
  /\ pc = "Done" /\ other.call.pc = "Done"
  /\ Len(result.warnings) >= 2
  /\ junctionTables # {}
  /\ Len(heap) = 2


\* The fields of a model that buildModel is given (the non-derived ones)
\* and that are non-translatable, relations or component references.
NonTranslated(model) ==
  SelectSeq(model.fields,
            LAMBDA f : /\ ~IsDerived(f)
                       /\ f.type = "component" => HasConfig(f, "component")
                       /\ \/ f.type \in {"component", "relation"}
                          \/ ~TranslatableFlag(f))

\* The translatable fields buildModel is given; with i18n disabled their
\* columns are on the base table too.
Translated(model) ==
  SelectSeq(model.fields,
            LAMBDA f : /\ ~IsDerived(f)
                       /\ f.type \notin {"component", "relation"}
                       /\ TranslatableFlag(f))

\* The name of the base-table column of a field.
BaseColumnName(field) ==
  IF field.type = "component" THEN field.key
  ELSE mapFieldToPrisma(field, schemaBuilderConfig)[1].name

NamesOf(columns) == [k \in 1..Len(columns) |-> columns[k].name]

(***************************************************************************)
(* C26  The columns of every base table, leaving aside those of            *)
(* translatable fields kept on it when i18n is disabled, are in order: the *)
(* identity column; the columns of the non-translatable, relation and      *)
(* component-reference fields in their declaration order; the two          *)
(* timestamp columns; and, if a translation table is emitted for the       *)
(* model, the `translations` column.                                       *)
(***************************************************************************)
C26_BaseColumnOrder ==
  pc = "Done" =>
    \A i \in OfKind({"base"}) :
      LET model == models[Org[i].m]
          stored == NonTranslated(model)
          translatedNames ==
            { BaseColumnName(Translated(model)[k]) :
                k \in 1..Len(Translated(model)) }
          translated == \E j \in OfKind({"translation"}) : Org[j].m = Org[i].m
      IN SelectSeq(NamesOf(Out[i].fields), LAMBDA n : n \notin translatedNames) =
           <<S_id>>
           \o [k \in 1..Len(stored) |-> BaseColumnName(stored[k])]
           \o <<S_created_at, S_updated_at>>
           \o (IF translated THEN <<S_translations>> ELSE <<>>)

IsList(column) == "list" \in DOMAIN column /\ column.list

IsOptional(column) == "optional" \in DOMAIN column /\ column.optional

(***************************************************************************)
(* C27  No column of a table generate() builds has both `list` and         *)
(* `optional` set, and no column type is rendered with both the list       *)
(* suffix and the optional suffix.                                         *)
(***************************************************************************)
C27_ListNotOptional ==
  pc = "Done" =>
    \A i \in 1..Len(Out) : Org[i].kind # "external" =>
      \A c \in Columns(Out[i]) :
        /\ ~(IsList(c) /\ IsOptional(c))
        /\ formatFieldType(c) \in {c.type, c.type \o <<"[", "]">>, c.type \o <<"?">>}

\* The definitions being compiled satisfy the definition schema.
CompiledInputAccepted ==
  /\ \A m \in 1..Len(models) : ModelConfigSchemaAccepts(models[m])
  /\ \A s \in DOMAIN components : ComponentEntitySchemaAccepts(components[s])

(***************************************************************************)
(* C29  In every table generate() emits for an input accepted by the       *)
(* definition schema (base, translation, component, component translation  *)
(* and junction tables), the column names are pairwise distinct.           *)
(***************************************************************************)
C29_DistinctColumnNames ==
  (pc = "Done" /\ CompiledInputAccepted) =>
    \A i \in 1..Len(Out) : Org[i].kind # "external" =>
      \A k, l \in 1..Len(Out[i].fields) :
        k # l => Out[i].fields[k].name # Out[i].fields[l].name

\* The columns named by the index and unique-constraint column-sets of a table.
SetsOf(table, key) == IF key \in DOMAIN table THEN table[key] ELSE <<>>

IndexedColumns(table) ==
  UNION { { cols[k] : k \in 1..Len(cols) } :
            cols \in { SetsOf(table, "indexes")[j] : j \in 1..Len(SetsOf(table, "indexes")) }
                     \cup { SetsOf(table, "unique")[j] : j \in 1..Len(SetsOf(table, "unique")) } }

(***************************************************************************)
(* C30  In every table generate() emits, each column named in an index     *)
(* column-set or a unique-constraint column-set is the name of a column of *)
(* that table; in particular the sortField index and the (status,          *)
(* published_at) index of a base table name columns of the base table,     *)
(* with i18n enabled or disabled.                                          *)
(***************************************************************************)
C30_IndexedColumnsExist ==
  pc = "Done" =>
    \A i \in 1..Len(Out) : Org[i].kind # "external" =>
      IndexedColumns(Out[i]) \subseteq ColumnNames(Out[i])
====
